---- MODULE Spec2Model ----
(***************************************************************************)
(* A model of PyMagento's batching layer (magento/batches.py: BatchSaver)  *)
(* and of its page walker (magento/client.py: Magento.get_paginated).      *)
(*                                                                         *)
(* Items are identified by their rank: the i-th item handed to add_item    *)
(* is the number i, the i-th item a server hands out is the number i.      *)
(* The code never looks inside an item, so the rank is all that matters.   *)
(***************************************************************************)
EXTENDS Integers, Sequences, FiniteSets, TLC

VARIABLES
    saver,        \* the BatchSaver object: batch_size, _batch, _sent_batches, _sent_items
    put_log,      \* every _put_batch attempt so far: the items, its outcome, the public call it came from
    n_added,      \* number of add_item calls made so far
    n_flush,      \* number of explicit send_batch() / finalize() calls made so far
    n_finalize,   \* number of times finalize() ran (called directly or by __exit__)
    last_call,    \* the latest public call on the saver: its name, whether it raised, what it returned
    ctx,          \* the with-block around the saver: not entered, inside, exited
    pg_args,      \* the arguments of the get_paginated call, and the client's PAGE_SIZE
    pg,           \* the locals of the get_paginated generator
    pg_pc,        \* where the generator stands: idle, start, fetch, items, done, raised
    yielded,      \* the items the generator has yielded so far
    requests,     \* the page fetches issued so far: the query and the retry budget of each
    responses,    \* what the server answered to each fetch
    pg_exc,       \* the exception get_json_api raised, and the one that left the generator
    rq_args,      \* the throw and retry arguments of the request_api call
    rq,           \* the locals of the request_api call: throw, retry, r
    rq_pc,        \* where the call stands: idle, send, sleep, returned, raised
    rq_events,    \* the requests issued and the sleeps taken so far, in order
    rq_responses, \* the responses obtained so far, in order
    rq_out,       \* how the call ended: the response returned or the exception raised
    sq_call,      \* the query builder called and its arguments
    sq_out,       \* the mapping it returned
    bt_call,      \* the exception-text entry point called, its message and parameters
    bt_out,       \* the text it produced, or the exception it raised
    th_writers,   \* the threads that call add_item on the shared saver: none yet, one, or two
    th_saver,     \* the BatchSaver they share
    th,           \* each thread's place in add_item / send_batch, its item and the sum of its +=
    th_written,   \* the batches written so far, in order
    th_added,     \* number of add_item calls begun so far
    gp_call,      \* the get_product_by_query call: expect_one, and how many products match
    gp,           \* the locals of its get_paginated walk
    gp_pc,        \* where the call stands: idle, fetch, items, done, returned, raised
    gp_products,  \* the products list() has collected so far
    gp_fetched,   \* the number of products the server has sent so far
    gp_out,       \* how the call ended: the product or None returned, or the exception
    bg,           \* the BatchGetter object: batch_size, key_field, keys, _batch
    bg_gen,       \* the locals of the running __iter__ generator
    bg_pc,        \* where it stands: none, idle, loop, get, yield, done, raised
    bg_iters,     \* number of iter(bg) calls made so far
    bg_calls,     \* every getter call so far: the batch, the query, the limit, the results
    bg_yielded,   \* every item yielded so far, with the iteration that yielded it
    bg_abandoned  \* the iterations the consumer left before their end

saver_vars == <<saver, put_log, n_added, n_flush, n_finalize, last_call, ctx>>

pg_vars == <<pg_args, pg, pg_pc, yielded, requests, responses, pg_exc>>

rq_vars == <<rq_args, rq, rq_pc, rq_events, rq_responses, rq_out>>

sq_vars == <<sq_call, sq_out>>

bt_vars == <<bt_call, bt_out>>

gp_vars == <<gp_call, gp, gp_pc, gp_products, gp_fetched, gp_out>>

th_vars == <<th_writers, th_saver, th, th_written, th_added>>

bg_vars == <<bg, bg_gen, bg_pc, bg_iters, bg_calls, bg_yielded, bg_abandoned>>

vars == <<saver, put_log, n_added, n_flush, n_finalize, last_call, ctx,
          pg_args, pg, pg_pc, yielded, requests, responses, pg_exc,
          rq_args, rq, rq_pc, rq_events, rq_responses, rq_out,
          sq_call, sq_out, bt_call, bt_out,
          gp_call, gp, gp_pc, gp_products, gp_fetched, gp_out,
          th_writers, th_saver, th, th_written, th_added,
          bg, bg_gen, bg_pc, bg_iters, bg_calls, bg_yielded, bg_abandoned>>

-----------------------------------------------------------------------------
(* Bounds of the model *)

MaxBatchSize == 3   \* batch_size ranges over 1..MaxBatchSize
MaxItems == 5       \* at most this many add_item calls
MaxFlushCalls == 2  \* at most this many explicit send_batch()/finalize() calls
MaxIterations == 2  \* a BatchGetter is iterated at most this many times
MaxKeys == 3        \* a BatchGetter gets at most this many keys
MaxLimit == 3       \* the limit argument ranges over -1..MaxLimit
MaxMatches == 3     \* a query matches at most this many products
MaxPieces == 3      \* a message holds at most this many pieces
MaxPageSize == 2    \* a page_size argument or batch_page_size ranges over 1..MaxPageSize
MaxPageLen == 3     \* a server page holds 0..MaxPageLen items
MaxFilters == 2     \* a filter group holds at most this many filters
MaxGroups == 2      \* make_search_query gets at most this many filter groups
MaxResults == 2     \* a getter call returns at most this many items
MaxRetry == 2       \* the retry argument of request_api ranges over 0..MaxRetry
MaxThreadItems == 3 \* the threads make at most this many add_item calls in all
MaxTotal == 3       \* a server reports a total_count in 0..MaxTotal

-----------------------------------------------------------------------------
(* Helpers *)

RECURSIVE Concat(_)
Concat(ss) == IF ss = <<>> THEN <<>> ELSE Head(ss) \o Concat(Tail(ss))

Range(n) == [i \in 1..n |-> i]

ItemsOf(log) == [i \in 1..Len(log) |-> log[i].items]

Min(a, b) == IF a < b THEN a ELSE b

Max(a, b) == IF a < b THEN b ELSE a

CeilDiv(a, b) == (a + b - 1) \div b

Tag(puts, via) == [i \in 1..Len(puts) |-> [items |-> puts[i].items, ok |-> puts[i].ok, via |-> via]]

-----------------------------------------------------------------------------
(* BatchSaver (magento/batches.py) *)

\* What a call returns: None, the API response of a write, or finalize()'s totals.
ReturnsNone == [kind |-> "None", sent_batches |-> 0, sent_items |-> 0]

ReturnsResp == [kind |-> "resp", sent_batches |-> 0, sent_items |-> 0]

ReturnsTotals(self) ==
    [kind |-> "totals", sent_batches |-> self.sent_batches, sent_items |-> self.sent_items]

\* The exception a failing write raises, and no exception.
PutError == "PutError"

NoError == "none"

\* BatchSaver.__init__
BatchSaver(batch_size) ==
    [batch_size |-> batch_size, batch |-> <<>>, sent_batches |-> 0, sent_items |-> 0]

\* A write that loses the first buffered item (an off-by-one slice).
put_batch_drops_first(self, ok) ==
    [exc |-> IF ok THEN NoError ELSE PutError,
     puts |-> << [items |-> Tail(self.batch), ok |-> ok] >>]

\* BatchSaver._put_batch: one write of the whole buffer; `ok` is the outcome
\* of client.put_json_api (it returns a response or raises).
put_batch(self, ok) ==
    [exc |-> IF ok THEN NoError ELSE PutError,
     puts |-> << [items |-> self.batch, ok |-> ok] >>]

\* A send_batch that forgets to start a new buffer after a successful write.
send_batch_keeps_buffer(self, ok) ==
    IF self.batch = <<>>
    THEN [self |-> self, exc |-> NoError, ret |-> ReturnsNone, puts |-> <<>>]
    ELSE LET w == put_batch(self, ok) IN
         IF w.exc # NoError
         THEN [self |-> self, exc |-> w.exc, ret |-> ReturnsNone, puts |-> w.puts]
         ELSE [self |-> [self EXCEPT !.sent_items = @ + Len(self.batch),
                                     !.sent_batches = @ + 1],
               exc |-> NoError, ret |-> ReturnsResp, puts |-> w.puts]

\* A send_batch that empties the buffer before the write is known to have
\* succeeded, so a failed write loses the pending items.
send_batch_clears_first(self, ok) ==
    IF self.batch = <<>>
    THEN [self |-> self, exc |-> NoError, ret |-> ReturnsNone, puts |-> <<>>]
    ELSE LET w == put_batch(self, ok) IN
         IF w.exc # NoError
         THEN [self |-> [self EXCEPT !.batch = <<>>], exc |-> w.exc, ret |-> ReturnsNone,
               puts |-> w.puts]
         ELSE [self |-> [self EXCEPT !.sent_items = @ + Len(self.batch),
                                     !.sent_batches = @ + 1,
                                     !.batch = <<>>],
               exc |-> NoError, ret |-> ReturnsResp, puts |-> w.puts]

\* A send_batch that counts a write as batch_size items, whatever it held.
send_batch_counts_batch_size(self, ok) ==
    IF self.batch = <<>>
    THEN [self |-> self, exc |-> NoError, ret |-> ReturnsNone, puts |-> <<>>]
    ELSE LET w == put_batch(self, ok) IN
         IF w.exc # NoError
         THEN [self |-> self, exc |-> w.exc, ret |-> ReturnsNone, puts |-> w.puts]
         ELSE [self |-> [self EXCEPT !.sent_items = @ + self.batch_size,
                                     !.sent_batches = @ + 1,
                                     !.batch = <<>>],
               exc |-> NoError, ret |-> ReturnsResp, puts |-> w.puts]

\* BatchSaver.send_batch
send_batch(self, ok) ==
    IF self.batch = <<>>
    THEN [self |-> self, exc |-> NoError, ret |-> ReturnsNone, puts |-> <<>>]
    ELSE LET w == put_batch(self, ok) IN
         IF w.exc # NoError
         THEN [self |-> self, exc |-> w.exc, ret |-> ReturnsNone, puts |-> w.puts]
         ELSE [self |-> [self EXCEPT !.sent_items = @ + Len(self.batch),
                                     !.sent_batches = @ + 1,
                                     !.batch = <<>>],
               exc |-> NoError, ret |-> ReturnsResp, puts |-> w.puts]

\* An add_item that flushes one item too late (> where the code has >=).
add_item_flushes_late(self, item_data, ok) ==
    LET s1 == [self EXCEPT !.batch = Append(@, item_data)] IN
    IF Len(s1.batch) > s1.batch_size
    THEN LET r == send_batch(s1, ok) IN
         [self |-> r.self, exc |-> r.exc, ret |-> ReturnsNone, puts |-> r.puts]
    ELSE [self |-> s1, exc |-> NoError, ret |-> ReturnsNone, puts |-> <<>>]

\* BatchSaver.add_item
add_item(self, item_data, ok) ==
    LET s1 == [self EXCEPT !.batch = Append(@, item_data)] IN
    IF Len(s1.batch) >= s1.batch_size
    THEN LET r == send_batch(s1, ok) IN
         [self |-> r.self, exc |-> r.exc, ret |-> ReturnsNone, puts |-> r.puts]
    ELSE [self |-> s1, exc |-> NoError, ret |-> ReturnsNone, puts |-> <<>>]

\* BatchSaver.finalize
finalize(self, ok) ==
    LET r == send_batch(self, ok) IN
    IF r.exc # NoError
    THEN [self |-> r.self, exc |-> r.exc, ret |-> ReturnsNone, puts |-> r.puts, finalized |-> 1]
    ELSE [self |-> r.self, exc |-> NoError, ret |-> ReturnsTotals(r.self), puts |-> r.puts,
          finalized |-> 1]

\* An __exit__ that finalizes only when the body completed normally.
exit_skips_on_error(self, body_raised, ok) ==
    IF body_raised
    THEN [self |-> self, exc |-> NoError, ret |-> ReturnsNone, puts |-> <<>>, finalized |-> 0]
    ELSE LET r == finalize(self, ok) IN
         [self |-> r.self, exc |-> r.exc, ret |-> ReturnsNone, puts |-> r.puts,
          finalized |-> r.finalized]

\* BatchSaver.__exit__: runs finalize() whether or not the body raised
\* (exc_type is not looked at) and returns None.
exit(self, body_raised, ok) ==
    LET r == finalize(self, ok) IN
    [self |-> r.self, exc |-> r.exc, ret |-> ReturnsNone, puts |-> r.puts,
     finalized |-> r.finalized]

-----------------------------------------------------------------------------
(* Magento.get_paginated (magento/client.py) *)

\* Magento.PAGE_SIZE, the class default
PAGE_SIZE == 1000

\* An optional integer argument: None, or a value.
None == [given |-> FALSE, value |-> 0]

Some(v) == [given |-> TRUE, value |-> v]

\* A query is a mapping from wire keys to values. The two keys the walk
\* writes, and one filter key of the caller's.
PageSizeKey == "searchCriteria[pageSize]"

CurrentPageKey == "searchCriteria[currentPage]"

FilterFieldKey == "searchCriteria[filter_groups][0][filters][0][field]"

\* {} and the optional query argument: None, or a mapping.
EmptyQuery == [k \in {} |-> 0]

NoQuery == [given |-> FALSE, value |-> EmptyQuery]

SomeQuery(q) == [given |-> TRUE, value |-> q]

\* d[k] = v on a dictionary
SetKey(d, k, v) == (k :> v) @@ d

\* The queries a caller passes in the model: none, and one with a filter and
\* a page size of its own. The retry budgets a caller passes.
QueryArgs ==
    {NoQuery, SomeQuery((FilterFieldKey :> 7) @@ (PageSizeKey :> 9) @@ (CurrentPageKey :> 5))}

RetryArgs == {0, 2}

\* Before get_paginated is called.
NoCall == [limit |-> 0, page_size |-> None, client_page_size |-> PAGE_SIZE,
           query |-> NoQuery, retry |-> 0]

NoLocals == [limit |-> 0, page_size |-> 0, query |-> EmptyQuery, retry |-> 0,
             current_page |-> 0, count |-> 0, items |-> <<>>, total_count |-> 0]

\* The exceptions a walk can end with.
FetchError == "FetchError"

KeyError == "KeyError"

HTTPError == "HTTPError"

\* What get_json_api can raise in the model.
FetchErrors == {FetchError, HTTPError}

\* No exception was raised by a fetch, none left the generator.
NoException == [fetch |-> NoError, out |-> NoError]

\* Magento.__init__: batch_page_size, when given, overrides PAGE_SIZE
ClientPageSize(batch_page_size) ==
    IF batch_page_size.given THEN batch_page_size.value ELSE PAGE_SIZE

\* A setup that always sends the default page size, whatever the limit.
setup_keeps_page_size(args) ==
    IF args.limit = 0
    THEN [pc |-> "done", exc |-> NoError, self |-> NoLocals, caller |-> args.query]
    ELSE LET ps == IF args.page_size.given THEN args.page_size.value
                   ELSE args.client_page_size
             q0 == IF args.query.given THEN args.query.value ELSE EmptyQuery
         IN  [pc |-> "fetch", exc |-> NoError, caller |-> args.query,
              self |-> [limit |-> args.limit, page_size |-> ps,
                        query |-> SetKey(q0, PageSizeKey, ps), retry |-> args.retry,
                        current_page |-> 1, count |-> 0, items |-> <<>>,
                        total_count |-> 0]]

\* A setup without the limit == 0 early return.
setup_ignores_zero_limit(args) ==
    LET ps0 == IF args.page_size.given THEN args.page_size.value ELSE args.client_page_size
        ps == IF 0 < args.limit /\ args.limit < ps0 THEN args.limit ELSE ps0
        q0 == IF args.query.given THEN args.query.value ELSE EmptyQuery
    IN  [pc |-> "fetch", exc |-> NoError, caller |-> args.query,
         self |-> [limit |-> args.limit, page_size |-> ps,
                   query |-> SetKey(q0, PageSizeKey, ps), retry |-> args.retry,
                   current_page |-> 1, count |-> 0, items |-> <<>>, total_count |-> 0]]

\* A setup that sets pageSize in the caller's mapping instead of a copy.
setup_without_copy(args) ==
    IF args.limit = 0
    THEN [pc |-> "done", exc |-> NoError, self |-> NoLocals, caller |-> args.query]
    ELSE LET ps0 == IF args.page_size.given THEN args.page_size.value
                    ELSE args.client_page_size
             ps == IF 0 < args.limit /\ args.limit < ps0 THEN args.limit ELSE ps0
             q0 == IF args.query.given THEN args.query.value ELSE EmptyQuery
         IN  [pc |-> "fetch", exc |-> NoError,
              caller |-> IF args.query.given THEN SomeQuery(SetKey(q0, PageSizeKey, ps))
                         ELSE args.query,
              self |-> [limit |-> args.limit, page_size |-> ps,
                        query |-> SetKey(q0, PageSizeKey, ps), retry |-> args.retry,
                        current_page |-> 1, count |-> 0, items |-> <<>>,
                        total_count |-> 0]]

\* get_paginated up to its loop: the limit == 0 early return, the effective
\* page size, the copy of the query with pageSize set, current_page = 1 and
\* count = 0. `caller` is the caller's query mapping as the code leaves it.
setup(args) ==
    IF args.limit = 0
    THEN [pc |-> "done", exc |-> NoError, self |-> NoLocals, caller |-> args.query]
    ELSE LET ps0 == IF args.page_size.given THEN args.page_size.value
                    ELSE args.client_page_size
             ps == IF 0 < args.limit /\ args.limit < ps0 THEN args.limit ELSE ps0
             q0 == IF args.query.given THEN args.query.value ELSE EmptyQuery
         IN  [pc |-> "fetch", exc |-> NoError, caller |-> args.query,
              self |-> [limit |-> args.limit, page_size |-> ps,
                        query |-> SetKey(q0, PageSizeKey, ps), retry |-> args.retry,
                        current_page |-> 1, count |-> 0, items |-> <<>>,
                        total_count |-> 0]]

\* One get_json_api call: a copy of the query with currentPage set, and the
\* retry budget passed through.
page_query(self) ==
    [query |-> SetKey(self.query, CurrentPageKey, self.current_page), retry |-> self.retry]

\* The page size and the page number a fetch asked for.
PageSizeOf(req) == req.query[PageSizeKey]

CurrentPageOf(req) == req.query[CurrentPageKey]

\* A walk that asks for the same page again when get_json_api raises.
on_fetch_error_retries(self, e) == [pc |-> "fetch", exc |-> NoError, self |-> self]

\* get_json_api raises inside the loop: there is no try around the call, so
\* the exception leaves the generator as it is.
on_fetch_error(self, e) == [pc |-> "raised", exc |-> e, self |-> self]

\* A walk that asks for the next page when it gets an empty one.
on_page_skips_empty(self, res) ==
    LET items == IF res.has_items THEN res.items ELSE <<>> IN
    IF items = <<>>
    THEN [pc |-> "fetch", exc |-> NoError,
          self |-> [self EXCEPT !.current_page = @ + 1]]
    ELSE IF ~res.has_total
    THEN [pc |-> "raised", exc |-> KeyError, self |-> self]
    ELSE [pc |-> "items", exc |-> NoError,
          self |-> [self EXCEPT !.items = items, !.total_count = res.total]]

\* The loop body from the answer of get_json_api to the first yield:
\* res.get("items", []), the break on no items, res["total_count"].
on_page(self, res) ==
    LET items == IF res.has_items THEN res.items ELSE <<>> IN
    IF items = <<>>
    THEN [pc |-> "done", exc |-> NoError, self |-> self]
    ELSE IF ~res.has_total
    THEN [pc |-> "raised", exc |-> KeyError, self |-> self]
    ELSE [pc |-> "items", exc |-> NoError,
          self |-> [self EXCEPT !.items = items, !.total_count = res.total]]

\* A walk that stops only once count exceeds total_count (> for >=).
after_yield_total_late(self) ==
    LET s1 == [self EXCEPT !.count = @ + 1, !.items = Tail(@)] IN
    IF s1.count > s1.total_count THEN [pc |-> "done", self |-> s1]
    ELSE IF s1.count >= s1.limit /\ s1.limit > 0 THEN [pc |-> "done", self |-> s1]
    ELSE IF s1.items # <<>> THEN [pc |-> "items", self |-> s1]
    ELSE [pc |-> "fetch", self |-> [s1 EXCEPT !.current_page = @ + 1]]

\* A walk that stops only once count exceeds limit (> for >=).
after_yield_limit_late(self) ==
    LET s1 == [self EXCEPT !.count = @ + 1, !.items = Tail(@)] IN
    IF s1.count >= s1.total_count THEN [pc |-> "done", self |-> s1]
    ELSE IF s1.count > s1.limit /\ s1.limit > 0 THEN [pc |-> "done", self |-> s1]
    ELSE IF s1.items # <<>> THEN [pc |-> "items", self |-> s1]
    ELSE [pc |-> "fetch", self |-> [s1 EXCEPT !.current_page = @ + 1]]

\* A walk that never compares count with total_count.
after_yield_ignores_total(self) ==
    LET s1 == [self EXCEPT !.count = @ + 1, !.items = Tail(@)] IN
    IF s1.count >= s1.limit /\ s1.limit > 0 THEN [pc |-> "done", self |-> s1]
    ELSE IF s1.items # <<>> THEN [pc |-> "items", self |-> s1]
    ELSE [pc |-> "fetch", self |-> [s1 EXCEPT !.current_page = @ + 1]]

\* A walk that never looks at limit.
after_yield_ignores_limit(self) ==
    LET s1 == [self EXCEPT !.count = @ + 1, !.items = Tail(@)] IN
    IF s1.count >= s1.total_count THEN [pc |-> "done", self |-> s1]
    ELSE IF s1.items # <<>> THEN [pc |-> "items", self |-> s1]
    ELSE [pc |-> "fetch", self |-> [s1 EXCEPT !.current_page = @ + 1]]

\* The for loop after `yield item`: count += 1, the two returns, the next
\* item, and current_page += 1 when the page is used up.
after_yield(self) ==
    LET s1 == [self EXCEPT !.count = @ + 1, !.items = Tail(@)] IN
    IF s1.count >= s1.total_count THEN [pc |-> "done", self |-> s1]
    ELSE IF s1.count >= s1.limit /\ s1.limit > 0 THEN [pc |-> "done", self |-> s1]
    ELSE IF s1.items # <<>> THEN [pc |-> "items", self |-> s1]
    ELSE [pc |-> "fetch", self |-> [s1 EXCEPT !.current_page = @ + 1]]

\* The number of items the server has handed out in its first n answers.
RECURSIVE Served(_, _)
Served(resps, n) == IF n = 0 THEN 0 ELSE Served(resps, n - 1) + Len(resps[n].items)

-----------------------------------------------------------------------------
(* MagentoException and build_exception_text (magento/exceptions.py) *)

\* A message is a sequence of pieces: literal text, or a placeholder %name
\* (a match of RE_PARAM).
Lit(s) == [ph |-> FALSE, s |-> s]
Ph(name) == [ph |-> TRUE, s |-> name]

\* The "parameters" of a message: None, a list, a mapping, or anything else.
NoParams == [kind |-> "none", list |-> <<>>, dict |-> [k \in {} |-> ""]]
ListParams(l) == [kind |-> "list", list |-> l, dict |-> [k \in {} |-> ""]]
DictParams(d) == [kind |-> "dict", list |-> <<>>, dict |-> d]
OtherParams == [kind |-> "other", list |-> <<>>, dict |-> [k \in {} |-> ""]]

NoTrace == [given |-> FALSE, value |-> ""]
SomeTrace(t) == [given |-> TRUE, value |-> t]

ValueError == "ValueError"
IndexError == "IndexError"

\* int(name) for the placeholder names that are decimal numbers
IntOf == ("0" :> 0) @@ ("1" :> 1) @@ ("2" :> 2) @@ ("3" :> 3)

\* `not parameters`: None, an empty list, an empty mapping
Falsy(parameters) ==
    \/ parameters.kind = "none"
    \/ parameters.kind = "list" /\ parameters.list = <<>>
    \/ parameters.kind = "dict" /\ DOMAIN parameters.dict = {}

\* A substitution that reads a list from index 0: %k gives the (k+1)-th.
Lookup_zero_indexed(name, parameters) ==
    IF parameters.kind = "dict"
    THEN IF name \in DOMAIN parameters.dict
         THEN [exc |-> NoError, s |-> parameters.dict[name]]
         ELSE [exc |-> KeyError, s |-> ""]
    ELSE IF name \notin DOMAIN IntOf THEN [exc |-> ValueError, s |-> ""]
    ELSE LET i == IntOf[name]
             n == Len(parameters.list) IN
         IF i >= n THEN [exc |-> IndexError, s |-> ""]
         ELSE [exc |-> NoError, s |-> parameters.list[i + 1]]

\* What the substitution callback does with one placeholder: the replacement,
\* or the exception the lookup raises. A list is indexed with int(name) - 1,
\* so %0 reads index -1, the last element.
Lookup(name, parameters) ==
    IF parameters.kind = "dict"
    THEN IF name \in DOMAIN parameters.dict
         THEN [exc |-> NoError, s |-> parameters.dict[name]]
         ELSE [exc |-> KeyError, s |-> ""]
    ELSE IF name \notin DOMAIN IntOf THEN [exc |-> ValueError, s |-> ""]
    ELSE LET i == IntOf[name] - 1
             n == Len(parameters.list) IN
         IF i >= n THEN [exc |-> IndexError, s |-> ""]
         ELSE IF i < 0 THEN [exc |-> NoError, s |-> parameters.list[n + i + 1]]
         ELSE [exc |-> NoError, s |-> parameters.list[i + 1]]

\* The first exception raised while substituting the pieces from position i on.
RECURSIVE FirstLookupError(_, _, _)
FirstLookupError(message, parameters, i) ==
    IF i > Len(message) THEN NoError
    ELSE IF message[i].ph /\ Lookup(message[i].s, parameters).exc # NoError
    THEN Lookup(message[i].s, parameters).exc
    ELSE FirstLookupError(message, parameters, i + 1)

\* build_exception_text(message, parameters): the text, or the exception
\* raised while building it.
build_exception_text(message, parameters) ==
    IF Falsy(parameters) THEN [exc |-> NoError, text |-> message]
    ELSE IF parameters.kind \in {"dict", "list"}
    THEN LET e == FirstLookupError(message, parameters, 1) IN
         IF e # NoError THEN [exc |-> e, text |-> <<>>]
         ELSE [exc |-> NoError,
               text |-> [i \in 1..Len(message) |->
                           IF message[i].ph
                           THEN Lit(Lookup(message[i].s, parameters).s)
                           ELSE message[i]]]
    ELSE [exc |-> NoError, text |-> <<Lit("(")>> \o message \o <<Lit(", parameters)")>>]

-----------------------------------------------------------------------------
(* raise_for_response and Magento.request_api (magento/client.py) *)

\* What response.json() gives: a ValueError, or the decoded value, of which
\* the code looks at whether it is a dict and at its "message", "parameters"
\* and "trace" keys.
NotJson ==
    [valid |-> FALSE, is_dict |-> FALSE, has_message |-> FALSE,
     message |-> <<>>, parameters |-> NoParams, trace |-> NoTrace]
JsonValue ==
    [valid |-> TRUE, is_dict |-> FALSE, has_message |-> FALSE,
     message |-> <<>>, parameters |-> NoParams, trace |-> NoTrace]
JsonDict ==
    [valid |-> TRUE, is_dict |-> TRUE, has_message |-> FALSE,
     message |-> <<>>, parameters |-> NoParams, trace |-> NoTrace]
JsonError(message, parameters, trace) ==
    [valid |-> TRUE, is_dict |-> TRUE, has_message |-> TRUE,
     message |-> message, parameters |-> parameters, trace |-> trace]

\* A requests.Response as the code sees it: .ok, the first character of .text
\* ("" for an empty text) and .json().
Response(ok, first, json) == [ok |-> ok, first |-> first, json |-> json]

NoResponse == Response(FALSE, "", NotJson)

\* The bodies a server can send: nothing, an HTML page, a JSON list, a JSON
\* object after a blank, a truncated JSON object, JSON objects without and
\* with a "message", whose parameters do or do not supply its placeholders.
Bodies ==
    { [first |-> "", json |-> NotJson],
      [first |-> "<", json |-> NotJson],
      [first |-> "[", json |-> JsonValue],
      [first |-> " ", json |-> JsonError(<<Lit("Not found")>>, NoParams, NoTrace)],
      [first |-> "{", json |-> NotJson],
      [first |-> "{", json |-> JsonDict],
      [first |-> "{", json |-> JsonError(<<Lit("Not found")>>, NoParams, NoTrace)],
      [first |-> "{", json |-> JsonError(<<Ph("1"), Lit(" is required")>>,
                                         ListParams(<<"sku">>), SomeTrace("#0"))],
      [first |-> "{", json |-> JsonError(<<Ph("fieldName"), Lit(" is required")>>,
                                         DictParams("fieldName" :> "product"), NoTrace)],
      [first |-> "{", json |-> JsonError(<<Ph("2"), Lit(" is required")>>,
                                         ListParams(<<"sku">>), NoTrace)],
      [first |-> "{", json |-> JsonError(<<Ph("fieldName"), Lit(" is required")>>,
                                         DictParams("field" :> "product"), NoTrace)] }

\* The responses super().request_api(..., throw=False) can return: any body
\* on a failure, and two of them on a success.
FailedResponses == { Response(FALSE, b.first, b.json) : b \in Bodies }
OkResponses ==
    { Response(TRUE, "", NotJson),
      Response(TRUE, "{", JsonError(<<Lit("Not found")>>, NoParams, NoTrace)) }
Responses == FailedResponses \cup OkResponses

MagentoException == "MagentoException"
ConnectionError == "ConnectionError"

\* An exception in flight: its class and, for a MagentoException, its fields.
Exception(type, message, parameters, trace, response, text) ==
    [type |-> type, message |-> message, parameters |-> parameters, trace |-> trace,
     response |-> response, text |-> text]

NoRaise == Exception(NoError, <<>>, NoParams, NoTrace, NoResponse, <<>>)

\* response.raise_for_status() on a response that is not ok
raise_for_status(response) ==
    Exception(HTTPError, <<>>, NoParams, NoTrace, response, <<>>)

\* MagentoException(message, parameters=, trace=, response=): the exception
\* object, or the exception its constructor raised while building the text.
NewMagentoException(message, parameters, trace, response) ==
    LET t == build_exception_text(message, parameters) IN
    IF t.exc # NoError
    THEN Exception(t.exc, <<>>, NoParams, NoTrace, NoResponse, <<>>)
    ELSE Exception(MagentoException, message, parameters, trace, response, t.text)

\* A raise_for_response that parses every non-empty body.
raise_for_response_parses_all(response) ==
    IF response.ok THEN NoRaise
    ELSE IF /\ response.first # ""
            /\ response.json.valid
            /\ response.json.is_dict /\ response.json.has_message
    THEN NewMagentoException(response.json.message, response.json.parameters,
                             response.json.trace, response)
    ELSE raise_for_status(response)

\* raise_for_response(response): the exception it raises, NoRaise if none.
raise_for_response(response) ==
    IF response.ok THEN NoRaise
    ELSE IF /\ response.first = "{"
            /\ response.json.valid
            /\ response.json.is_dict /\ response.json.has_message
    THEN NewMagentoException(response.json.message, response.json.parameters,
                             response.json.trace, response)
    ELSE raise_for_status(response)

\* The fixed pause before a retry: time.sleep(10)
BACKOFF == 10

\* request_api has not been called
NoRequestCall == [throw |-> FALSE, retry |-> 0]
NoRequestLocals == [throw |-> FALSE, retry |-> 0, r |-> NoResponse]

\* How a request_api call ended: not yet, a returned response, an exception
NoOutcome == [kind |-> "none", ret |-> NoResponse, exc |-> NoRaise]
Returned(r) == [kind |-> "return", ret |-> r, exc |-> NoRaise]
Raised(e) == [kind |-> "raise", ret |-> NoResponse, exc |-> e]

\* A request_api that retries whatever the response.
on_response_retries_ok(self, r) ==
    LET s1 == [self EXCEPT !.r = r] IN
    IF s1.retry > 0
    THEN [pc |-> "sleep", self |-> [s1 EXCEPT !.retry = @ - 1], out |-> NoOutcome]
    ELSE LET e == IF s1.throw THEN raise_for_response(s1.r) ELSE NoRaise IN
         IF e.type # NoError
         THEN [pc |-> "raised", self |-> s1, out |-> Raised(e)]
         ELSE [pc |-> "returned", self |-> s1, out |-> Returned(s1.r)]

\* A request_api that raises whatever throw says.
on_response_always_throws(self, r) ==
    LET s1 == [self EXCEPT !.r = r] IN
    IF ~s1.r.ok /\ s1.retry > 0
    THEN [pc |-> "sleep", self |-> [s1 EXCEPT !.retry = @ - 1], out |-> NoOutcome]
    ELSE LET e == raise_for_response(s1.r) IN
         IF e.type # NoError
         THEN [pc |-> "raised", self |-> s1, out |-> Raised(e)]
         ELSE [pc |-> "returned", self |-> s1, out |-> Returned(s1.r)]

\* request_api once super().request_api has returned r: the test of the
\* while loop, then either the retry (budget down by one, on to the sleep) or
\* the end of the call (raise_for_response if throw, return r).
on_response(self, r) ==
    LET s1 == [self EXCEPT !.r = r] IN
    IF ~s1.r.ok /\ s1.retry > 0
    THEN [pc |-> "sleep", self |-> [s1 EXCEPT !.retry = @ - 1], out |-> NoOutcome]
    ELSE LET e == IF s1.throw THEN raise_for_response(s1.r) ELSE NoRaise IN
         IF e.type # NoError
         THEN [pc |-> "raised", self |-> s1, out |-> Raised(e)]
         ELSE [pc |-> "returned", self |-> s1, out |-> Returned(s1.r)]

-----------------------------------------------------------------------------
(* make_search_query and make_field_value_query (magento/queries.py) *)

\* A filter is a tuple (field, value, condition_type); condition_type may be
\* None.
NoCondition == [given |-> FALSE, value |-> ""]
Condition(c) == [given |-> TRUE, value |-> c]
Filter(field, value, condition_type) ==
    [field |-> field, value |-> value, condition_type |-> condition_type]

\* A sort order is a tuple (field, direction); sort_orders may be None.
SortOrder(field, direction) == [field |-> field, direction |-> direction]
NoSortOrders == [given |-> FALSE, value |-> <<>>]
SomeSortOrders(s) == [given |-> TRUE, value |-> s]

\* The wire keys, as the f-strings build them
FilterKey(g, f, k) ==
    "searchCriteria[filter_groups][" \o ToString(g) \o "][filters][" \o ToString(f)
        \o "][" \o k \o "]"
SortOrderKey(i, k) == "searchCriteria[sortOrders][" \o ToString(i) \o "][" \o k \o "]"

\* An inner loop that leaves condition_type out when it is None or "eq".
with_filter_skips_eq(d, g, f, filter_) ==
    LET d1 == SetKey(d, FilterKey(g, f, "field"), filter_.field)
        d2 == SetKey(d1, FilterKey(g, f, "value"), filter_.value) IN
    IF filter_.condition_type.given /\ filter_.condition_type.value # "eq"
    THEN SetKey(d2, FilterKey(g, f, "condition_type"), filter_.condition_type.value)
    ELSE d2

\* The innermost loop: the field, value and condition_type keys of the filter
\* at index f of group g, the last one skipped when it is None.
with_filter(d, g, f, filter_) ==
    LET d1 == SetKey(d, FilterKey(g, f, "field"), filter_.field)
        d2 == SetKey(d1, FilterKey(g, f, "value"), filter_.value) IN
    IF filter_.condition_type.given
    THEN SetKey(d2, FilterKey(g, f, "condition_type"), filter_.condition_type.value)
    ELSE d2

\* enumerate(filter_group) from index f on
RECURSIVE with_filters(_, _, _, _)
with_filters(d, g, filter_group, f) ==
    IF f >= Len(filter_group) THEN d
    ELSE with_filters(with_filter(d, g, f, filter_group[f + 1]), g, filter_group, f + 1)

\* An outer loop that writes every group under index 0.
RECURSIVE with_filter_groups_one_index(_, _, _)
with_filter_groups_one_index(d, filter_groups, g) ==
    IF g >= Len(filter_groups) THEN d
    ELSE with_filter_groups_one_index(with_filters(d, 0, filter_groups[g + 1], 0),
                                      filter_groups, g + 1)

\* enumerate(filter_groups) from index g on
RECURSIVE with_filter_groups(_, _, _)
with_filter_groups(d, filter_groups, g) ==
    IF g >= Len(filter_groups) THEN d
    ELSE with_filter_groups(with_filters(d, g, filter_groups[g + 1], 0), filter_groups, g + 1)

\* enumerate(sort_orders) from index i on
RECURSIVE with_sort_orders(_, _, _)
with_sort_orders(d, sort_orders, i) ==
    IF i >= Len(sort_orders) THEN d
    ELSE with_sort_orders(
             SetKey(SetKey(d, SortOrderKey(i, "field"), sort_orders[i + 1].field),
                    SortOrderKey(i, "direction"), sort_orders[i + 1].direction),
             sort_orders, i + 1)

\* make_search_query(filter_groups, sort_orders=, page_size=, current_page=)
make_search_query(filter_groups, sort_orders, page_size, current_page) ==
    LET d0 == EmptyQuery
        d1 == IF page_size.given THEN SetKey(d0, PageSizeKey, page_size.value) ELSE d0
        d2 == IF current_page.given THEN SetKey(d1, CurrentPageKey, current_page.value) ELSE d1
        d3 == with_filter_groups(d2, filter_groups, 0) IN
    IF sort_orders.given /\ sort_orders.value # <<>>
    THEN with_sort_orders(d3, sort_orders.value, 0)
    ELSE d3

\* A make_field_value_query that forwards the filter only.
make_field_value_query_filter_only(field, value, condition_type, page_size, current_page, sort_orders) ==
    make_search_query(<<<<Filter(field, value, condition_type)>>>>, NoSortOrders, None, None)

\* make_field_value_query(field, value, condition_type, page_size,
\* current_page, sort_orders=)
make_field_value_query(field, value, condition_type, page_size, current_page, sort_orders) ==
    make_search_query(<<<<Filter(field, value, condition_type)>>>>,
                      sort_orders, page_size, current_page)

\* The filters, sort orders and paging arguments a caller passes in the model
Filters ==
    { Filter("sku", "A", NoCondition), Filter("sku", "A", Condition("eq")),
      Filter("name", "B", Condition("in")), Filter("name", "B", Condition("")) }

\* All sequences of at most n elements of S
RECURSIVE SeqsUpTo(_, _)
SeqsUpTo(S, n) ==
    IF n = 0 THEN {<<>>}
    ELSE SeqsUpTo(S, n - 1) \cup { Append(s, x) : s \in {t \in SeqsUpTo(S, n - 1) : Len(t) = n - 1}, x \in S }

FilterGroupsArgs == SeqsUpTo(SeqsUpTo(Filters, MaxFilters), MaxGroups)

SortOrdersArgs ==
    { NoSortOrders, SomeSortOrders(<<>>),
      SomeSortOrders(<<SortOrder("sku", "asc"), SortOrder("name", "desc")>>) }

PagingArgs == { None, Some(2) }

\* No query function has been called
NoQueryCall ==
    [fn |-> "none", filter_groups |-> <<>>, sort_orders |-> NoSortOrders,
     page_size |-> None, current_page |-> None]

\* The messages and parameters a caller passes in the model
Pieces == { Lit("Hello "), Ph("name"), Ph("0"), Ph("1"), Ph("2") }

MessageArgs == SeqsUpTo(Pieces, MaxPieces)

ParametersArgs ==
    { NoParams, ListParams(<<>>), ListParams(<<"a">>), ListParams(<<"a", "b">>),
      DictParams([k \in {} |-> ""]), DictParams("name" :> "Jane"), OtherParams }

\* Neither build_exception_text nor MagentoException has been called
NoTextCall == [fn |-> "none", message |-> <<>>, parameters |-> NoParams]
NoText == [exc |-> NoError, text |-> <<>>]

-----------------------------------------------------------------------------
(* BatchSaver.add_item and send_batch, statement by statement, as two threads
   sharing one instance run them *)

\* The threads that may call add_item on the shared instance
Threads == {1, 2}

\* self._batch.append(item_data)
append_item(self, item_data) == [self EXCEPT !.batch = Append(@, item_data)]

\* len(self._batch) >= self.batch_size
batch_full(self) == Len(self.batch) >= self.batch_size

\* `if not self._batch: return None` does not return
batch_pending(self) == self.batch # <<>>

\* A `+=` that counts one item per write.
new_sent_items_one_per_write(self) == self.sent_items + 1

\* The value `self._sent_items += len(self._batch)` computes before it stores it
new_sent_items(self) == self.sent_items + Len(self.batch)

\* The value `self._sent_batches += 1` computes before it stores it
new_sent_batches(self) == self.sent_batches + 1

\* self._batch = []
new_batch(self) == [self EXCEPT !.batch = <<>>]

\* A thread outside add_item, and one inside it with its argument and the
\* value of the `+=` it is in the middle of
IdleThread == [pc |-> "idle", item_data |-> 0, value |-> 0]

-----------------------------------------------------------------------------
(* Magento.get_product_by_query (magento/client.py) *)

MagentoAssertionError == "MagentoAssertionError"

\* The classes an exception of each class is an instance of
ClassesOf ==
    (MagentoAssertionError :> {MagentoAssertionError, "AssertionError", "Exception"})
        @@ (MagentoException :> {MagentoException, "Exception"})
        @@ (NoError :> {})

\* The limit get_product_by_query passes to get_products
products_limit(expect_one) == IF expect_one THEN 2 ELSE 1

\* The page a server on which the query matches n products answers with:
\* the products of that page (the i-th match is the product i) and
\* total_count = n.
MatchingPage(n, page_size, current_page) ==
    LET first == (current_page - 1) * page_size
        len == Max(0, Min(page_size, n - first)) IN
    [items |-> [i \in 1..len |-> first + i], has_items |-> TRUE,
     total |-> n, has_total |-> TRUE]

\* get_product_by_query has not been called
NoProductCall == [expect_one |-> TRUE, matches |-> 0, client_page_size |-> PAGE_SIZE]

\* How the call ended: not yet, a product or None returned, an exception
NoProductOutcome == [kind |-> "none", product |-> None, exc |-> NoError]
ReturnsProduct(p) == [kind |-> "return", product |-> p, exc |-> NoError]
RaisesError(e) == [kind |-> "raise", product |-> None, exc |-> e]

\* A get_product_by_query that settles for the first of several products.
decide_takes_first(expect_one, products) ==
    IF products = <<>> THEN ReturnsProduct(None) ELSE ReturnsProduct(Some(products[1]))

\* The end of get_product_by_query once get_products is exhausted: None for
\* expect_one=False (no product came), else None, the product, or the
\* assertion error, by the number of products listed.
decide(expect_one, products) ==
    IF ~expect_one THEN ReturnsProduct(None)
    ELSE IF products = <<>> THEN ReturnsProduct(None)
    ELSE IF Len(products) = 1 THEN ReturnsProduct(Some(products[1]))
    ELSE RaisesError(MagentoAssertionError)

-----------------------------------------------------------------------------
(* BatchGetter (magento/batches.py) *)

\* ",".join(strs)
RECURSIVE Join(_)
Join(strs) ==
    IF strs = <<>> THEN ""
    ELSE IF Len(strs) = 1 THEN strs[1]
    ELSE strs[1] \o "," \o Join(Tail(strs))

\* The keys argument: a collection that can be iterated again and again (a
\* list, a range), or a one-shot iterator, which remembers how many keys it
\* has handed out. The i-th key is the integer i.
KeysList(m) == [kind |-> "list", items |-> [i \in 1..m |-> i], pos |-> 0]
KeysIterator(m) == [kind |-> "iterator", items |-> [i \in 1..m |-> i], pos |-> 0]

\* BatchGetter.__init__(getter, key_field, keys, batch_size)
BatchGetter(key_field, keys, batch_size) ==
    [batch_size |-> batch_size, key_field |-> key_field, keys |-> keys, _batch |-> <<>>]

NoGetter == BatchGetter("", KeysList(0), 0)

\* The locals of one run of __iter__: where its `for` stands in the keys, the
\* _get_batch call it is in (the one of the loop body or the last one), the
\* results of the getter it has not yielded yet.
NoGenerator == [pos |-> 0, last |-> FALSE, pending |-> <<>>]

\* An iter() that rewinds a one-shot iterator.
iter_keys_rewinds(keys) == 0

\* iter(self.keys): where the `for` starts. A collection gives a fresh
\* iterator, an iterator gives itself.
iter_keys(keys) == IF keys.kind = "list" THEN 0 ELSE keys.pos

\* iter(bg): a new generator; nothing runs until the first next().
iter_(self) == [pos |-> iter_keys(self.keys), last |-> FALSE, pending |-> <<>>]

\* Whether the `for` has a next key
HasKey(self, gen) == gen.pos < Len(self.keys.items)

\* One round of the loop body: the key is appended as a string; the batch is
\* fetched once it holds batch_size keys.
take_key(self, gen) ==
    LET key == self.keys.items[gen.pos + 1]
        keys1 == IF self.keys.kind = "iterator"
                 THEN [self.keys EXCEPT !.pos = gen.pos + 1] ELSE self.keys
        s1 == [self EXCEPT !._batch = Append(@, ToString(key)), !.keys = keys1]
        g1 == [gen EXCEPT !.pos = @ + 1] IN
    [self |-> s1, gen |-> g1,
     pc |-> IF Len(s1._batch) < s1.batch_size THEN "loop" ELSE "get"]

\* An __iter__ that ends without fetching what is left in the batch.
keys_exhausted_drops_rest(self, gen) ==
    [self |-> self, gen |-> [gen EXCEPT !.last = TRUE], pc |-> "done"]

\* The `for` is over: the last _get_batch().
keys_exhausted(self, gen) ==
    [self |-> self, gen |-> [gen EXCEPT !.last = TRUE], pc |-> "get"]

\* Where a _get_batch() returns to: the loop, or the end of __iter__
AfterGetBatch(gen) == IF gen.last THEN "done" ELSE "loop"

\* A _get_batch that always asks for batch_size items.
get_batch_limit_batch_size(self) ==
    IF self._batch = <<>> THEN [call |-> FALSE, query |-> EmptyQuery, limit |-> 0]
    ELSE [call |-> TRUE,
          query |-> make_field_value_query(self.key_field, Join(self._batch),
                                           Condition("in"), None, None, NoSortOrders),
          limit |-> self.batch_size]

\* _get_batch up to the getter call: no call on an empty batch, else the
\* query and the limit the getter is called with.
get_batch(self) ==
    IF self._batch = <<>> THEN [call |-> FALSE, query |-> EmptyQuery, limit |-> 0]
    ELSE [call |-> TRUE,
          query |-> make_field_value_query(self.key_field, Join(self._batch),
                                           Condition("in"), None, None, NoSortOrders),
          limit |-> Len(self._batch)]

\* _get_batch after the last result was yielded: the batch is reset.
end_batch(self, gen) ==
    [self |-> [self EXCEPT !._batch = <<>>], gen |-> gen, pc |-> AfterGetBatch(gen)]

\* The number of results the getter has handed out in the calls so far
RECURSIVE Handed(_)
Handed(calls) ==
    IF calls = <<>> THEN 0 ELSE Len(calls[Len(calls)].results) + Handed(SubSeq(calls, 1, Len(calls) - 1))

-----------------------------------------------------------------------------
(* The state after construction *)

Init ==
    /\ \E bs \in 1..MaxBatchSize : saver = BatchSaver(bs)
    /\ put_log = <<>>
    /\ n_added = 0
    /\ n_flush = 0
    /\ n_finalize = 0
    /\ last_call = [op |-> "__init__", exc |-> NoError, ret |-> ReturnsNone]
    /\ ctx = [state |-> "none", body_raised |-> FALSE, exit_exc |-> NoError]
    /\ pg_args = NoCall
    /\ pg = NoLocals
    /\ pg_pc = "idle"
    /\ yielded = <<>>
    /\ requests = <<>>
    /\ responses = <<>>
    /\ pg_exc = NoException
    /\ rq_args = NoRequestCall
    /\ rq = NoRequestLocals
    /\ rq_pc = "idle"
    /\ rq_events = <<>>
    /\ rq_responses = <<>>
    /\ rq_out = NoOutcome
    /\ sq_call = NoQueryCall
    /\ sq_out = EmptyQuery
    /\ bt_call = NoTextCall
    /\ bt_out = NoText
    /\ th_writers = {}
    /\ th_saver = saver
    /\ th = [t \in Threads |-> IdleThread]
    /\ th_written = <<>>
    /\ th_added = 0
    /\ gp_call = NoProductCall
    /\ gp = NoLocals
    /\ gp_pc = "idle"
    /\ gp_products = <<>>
    /\ gp_fetched = 0
    /\ gp_out = NoProductOutcome
    /\ bg = NoGetter
    /\ bg_gen = NoGenerator
    /\ bg_pc = "none"
    /\ bg_iters = 0
    /\ bg_calls = <<>>
    /\ bg_yielded = <<>>
    /\ bg_abandoned = {}

-----------------------------------------------------------------------------
(* One action per public call on the saver; a single sequential caller *)

\* bs.add_item(item): the item is the next rank
AddItem ==
    /\ n_added < MaxItems
    /\ ctx.state # "exited"
    /\ \E ok \in BOOLEAN :
         LET r == add_item(saver, n_added + 1, ok) IN
         /\ saver' = r.self
         /\ put_log' = put_log \o Tag(r.puts, "add_item")
         /\ last_call' = [op |-> "add_item", exc |-> r.exc, ret |-> r.ret]
    /\ n_added' = n_added + 1
    /\ UNCHANGED <<n_flush, n_finalize, ctx>>
    /\ UNCHANGED <<pg_vars, rq_vars, sq_vars, bg_vars, bt_vars, gp_vars, th_vars>>

\* bs.send_batch()
SendBatch ==
    /\ n_flush < MaxFlushCalls
    /\ \E ok \in BOOLEAN :
         LET r == send_batch(saver, ok) IN
         /\ saver' = r.self
         /\ put_log' = put_log \o Tag(r.puts, "send_batch")
         /\ last_call' = [op |-> "send_batch", exc |-> r.exc, ret |-> r.ret]
    /\ n_flush' = n_flush + 1
    /\ UNCHANGED <<n_added, n_finalize, ctx>>
    /\ UNCHANGED <<pg_vars, rq_vars, sq_vars, bg_vars, bt_vars, gp_vars, th_vars>>

\* bs.finalize()
Finalize ==
    /\ n_flush < MaxFlushCalls
    /\ \E ok \in BOOLEAN :
         LET r == finalize(saver, ok) IN
         /\ saver' = r.self
         /\ put_log' = put_log \o Tag(r.puts, "finalize")
         /\ last_call' = [op |-> "finalize", exc |-> r.exc, ret |-> r.ret]
         /\ n_finalize' = n_finalize + r.finalized
    /\ n_flush' = n_flush + 1
    /\ UNCHANGED <<n_added, ctx>>
    /\ UNCHANGED <<pg_vars, rq_vars, sq_vars, bg_vars, bt_vars, gp_vars, th_vars>>

\* `with bs:` -- BatchSaver.__enter__ returns self and touches nothing
Enter ==
    /\ ctx.state = "none"
    /\ ctx' = [state |-> "in", body_raised |-> FALSE, exit_exc |-> NoError]
    /\ last_call' = [op |-> "__enter__", exc |-> NoError, ret |-> ReturnsNone]
    /\ UNCHANGED <<saver, put_log, n_added, n_flush, n_finalize>>
    /\ UNCHANGED <<pg_vars, rq_vars, sq_vars, bg_vars, bt_vars, gp_vars, th_vars>>

\* The with-block ends, its body having completed or raised: the with
\* statement calls BatchSaver.__exit__ on both paths.
Exit ==
    /\ ctx.state = "in"
    /\ \E body_raised \in BOOLEAN, ok \in BOOLEAN :
         LET r == exit(saver, body_raised, ok) IN
         /\ saver' = r.self
         /\ put_log' = put_log \o Tag(r.puts, "__exit__")
         /\ last_call' = [op |-> "__exit__", exc |-> r.exc, ret |-> r.ret]
         /\ n_finalize' = n_finalize + r.finalized
         /\ ctx' = [state |-> "exited", body_raised |-> body_raised, exit_exc |-> r.exc]
    /\ UNCHANGED <<n_added, n_flush>>
    /\ UNCHANGED <<pg_vars, rq_vars, sq_vars, bg_vars, bt_vars, gp_vars, th_vars>>

SaverNext == AddItem \/ SendBatch \/ Finalize \/ Enter \/ Exit

SpecSaver == Init /\ [][SaverNext]_vars

-----------------------------------------------------------------------------
(* get_paginated: the call, and one action per step of the generator *)

\* client.get_paginated(path, query=..., limit=..., retry=..., page_size=...) on a client built
\* with or without batch_page_size. Nothing runs until the first next().
Call ==
    /\ pg_pc = "idle"
    /\ \E limit \in -1..MaxLimit,
          page_size \in {None} \cup {Some(v) : v \in 1..MaxPageSize},
          batch_page_size \in {None} \cup {Some(v) : v \in 1..MaxPageSize},
          query \in QueryArgs, retry \in RetryArgs :
         pg_args' = [limit |-> limit, page_size |-> page_size,
                     client_page_size |-> ClientPageSize(batch_page_size),
                     query |-> query, retry |-> retry]
    /\ pg_pc' = "start"
    /\ UNCHANGED <<pg, yielded, requests, responses, pg_exc>>
    /\ UNCHANGED <<saver_vars, rq_vars, sq_vars, bg_vars, bt_vars, gp_vars, th_vars>>

\* The first next(): the code before the loop.
Start ==
    /\ pg_pc = "start"
    /\ LET r == setup(pg_args) IN
         /\ pg_pc' = r.pc
         /\ pg' = r.self
         /\ pg_args' = [pg_args EXCEPT !.query = r.caller]
    /\ UNCHANGED <<yielded, requests, responses, pg_exc>>
    /\ UNCHANGED <<saver_vars, rq_vars, sq_vars, bg_vars, bt_vars, gp_vars, th_vars>>

\* One get_json_api call that returns: the server answers with any page (the
\* next n items, or no "items" key at all) and any total_count (or none).
Fetch ==
    /\ pg_pc = "fetch"
    /\ \E n \in 0..MaxPageLen, has_items \in BOOLEAN, total \in 0..MaxTotal,
          has_total \in BOOLEAN :
         /\ ~has_items => n = 0
         /\ ~has_total => total = 0
         /\ LET first == Served(responses, Len(responses))
                res == [items |-> [i \in 1..n |-> first + i], has_items |-> has_items,
                        total |-> total, has_total |-> has_total]
                r == on_page(pg, res)
            IN  /\ responses' = Append(responses, res)
                /\ pg_pc' = r.pc
                /\ pg' = r.self
                /\ pg_exc' = [fetch |-> NoError, out |-> r.exc]
    /\ requests' = Append(requests, page_query(pg))
    /\ UNCHANGED <<pg_args, yielded>>
    /\ UNCHANGED <<saver_vars, rq_vars, sq_vars, bg_vars, bt_vars, gp_vars, th_vars>>

\* One get_json_api call that raises: the exception leaves the generator.
FetchRaises ==
    /\ pg_pc = "fetch"
    /\ requests' = Append(requests, page_query(pg))
    /\ \E e \in FetchErrors :
         LET r == on_fetch_error(pg, e) IN
         /\ pg_pc' = r.pc
         /\ pg' = r.self
         /\ pg_exc' = [fetch |-> e, out |-> r.exc]
    /\ UNCHANGED <<pg_args, yielded, responses>>
    /\ UNCHANGED <<saver_vars, rq_vars, sq_vars, bg_vars, bt_vars, gp_vars, th_vars>>

\* `yield item`, and what the loop does when the consumer asks again.
YieldItem ==
    /\ pg_pc = "items"
    /\ yielded' = Append(yielded, Head(pg.items))
    /\ LET r == after_yield(pg) IN
         /\ pg_pc' = r.pc
         /\ pg' = r.self
    /\ UNCHANGED <<pg_args, requests, responses, pg_exc>>
    /\ UNCHANGED <<saver_vars, rq_vars, sq_vars, bg_vars, bt_vars, gp_vars, th_vars>>

PaginatedNext == Call \/ Start \/ Fetch \/ FetchRaises \/ YieldItem

SpecPaginated == Init /\ [][PaginatedNext]_vars

\* The same walk with a consumer that keeps asking for the next item and a
\* get_json_api that always comes back (with an answer or an exception).
SpecPaginatedFair == SpecPaginated /\ WF_vars(PaginatedNext)

-----------------------------------------------------------------------------
(* request_api: the call, and one action per request and per sleep *)

\* client.request_api(method, "/V1/...", throw=..., retry=...)
RequestCall ==
    /\ rq_pc = "idle"
    /\ \E throw \in BOOLEAN, retry \in 0..MaxRetry :
         /\ rq_args' = [throw |-> throw, retry |-> retry]
         /\ rq' = [throw |-> throw, retry |-> retry, r |-> NoResponse]
    /\ rq_pc' = "send"
    /\ UNCHANGED <<rq_events, rq_responses, rq_out>>
    /\ UNCHANGED <<saver_vars, pg_vars, sq_vars, bg_vars, bt_vars, gp_vars, th_vars>>

\* One super().request_api(..., throw=False) that returns: the server
\* answers with any response.
Send ==
    /\ rq_pc = "send"
    /\ \E r \in Responses :
         LET n == on_response(rq, r) IN
         /\ rq_responses' = Append(rq_responses, r)
         /\ rq' = n.self
         /\ rq_pc' = n.pc
         /\ rq_out' = n.out
    /\ rq_events' = Append(rq_events, [op |-> "request", secs |-> 0])
    /\ UNCHANGED rq_args
    /\ UNCHANGED <<saver_vars, pg_vars, sq_vars, bg_vars, bt_vars, gp_vars, th_vars>>

\* One super().request_api that raises (no response at all): nothing
\* catches it.
SendRaises ==
    /\ rq_pc = "send"
    /\ rq_events' = Append(rq_events, [op |-> "request", secs |-> 0])
    /\ rq_pc' = "raised"
    /\ rq_out' = Raised(Exception(ConnectionError, <<>>, NoParams, NoTrace, NoResponse, <<>>))
    /\ UNCHANGED <<rq_args, rq, rq_responses>>
    /\ UNCHANGED <<saver_vars, pg_vars, sq_vars, bg_vars, bt_vars, gp_vars, th_vars>>

\* time.sleep(10) in the loop body
Sleep ==
    /\ rq_pc = "sleep"
    /\ rq_events' = Append(rq_events, [op |-> "sleep", secs |-> BACKOFF])
    /\ rq_pc' = "send"
    /\ UNCHANGED <<rq_args, rq, rq_responses, rq_out>>
    /\ UNCHANGED <<saver_vars, pg_vars, sq_vars, bg_vars, bt_vars, gp_vars, th_vars>>

RequestNext == RequestCall \/ Send \/ SendRaises \/ Sleep

SpecRequest == Init /\ [][RequestNext]_vars

-----------------------------------------------------------------------------
(* The query builders: one action per function *)

\* make_search_query(filter_groups, sort_orders=..., page_size=..., current_page=...)
MakeSearchQuery ==
    /\ sq_call.fn = "none"
    /\ \E filter_groups \in FilterGroupsArgs, sort_orders \in SortOrdersArgs,
          page_size \in PagingArgs, current_page \in PagingArgs :
         /\ sq_call' = [fn |-> "make_search_query", filter_groups |-> filter_groups,
                        sort_orders |-> sort_orders, page_size |-> page_size,
                        current_page |-> current_page]
         /\ sq_out' = make_search_query(filter_groups, sort_orders, page_size, current_page)
    /\ UNCHANGED <<saver_vars, pg_vars, rq_vars, bg_vars, bt_vars, gp_vars, th_vars>>

\* make_field_value_query(field, value, condition_type, page_size, current_page, sort_orders=...)
MakeFieldValueQuery ==
    /\ sq_call.fn = "none"
    /\ \E filter_ \in Filters, sort_orders \in SortOrdersArgs,
          page_size \in PagingArgs, current_page \in PagingArgs :
         /\ sq_call' = [fn |-> "make_field_value_query", filter_groups |-> <<<<filter_>>>>,
                        sort_orders |-> sort_orders, page_size |-> page_size,
                        current_page |-> current_page]
         /\ sq_out' = make_field_value_query(filter_.field, filter_.value,
                                             filter_.condition_type, page_size,
                                             current_page, sort_orders)
    /\ UNCHANGED <<saver_vars, pg_vars, rq_vars, bg_vars, bt_vars, gp_vars, th_vars>>

QueryNext == MakeSearchQuery \/ MakeFieldValueQuery

SpecQuery == Init /\ [][QueryNext]_vars

-----------------------------------------------------------------------------
(* The exception text: one action per entry point *)

\* build_exception_text(message, parameters)
BuildExceptionText ==
    /\ bt_call.fn = "none"
    /\ \E message \in MessageArgs, parameters \in ParametersArgs :
         /\ bt_call' = [fn |-> "build_exception_text", message |-> message,
                        parameters |-> parameters]
         /\ bt_out' = build_exception_text(message, parameters)
    /\ UNCHANGED <<saver_vars, pg_vars, rq_vars, sq_vars, bg_vars, gp_vars, th_vars>>

\* MagentoException(message, parameters): the text given to Exception.__init__,
\* or the exception the constructor raised
ConstructException ==
    /\ bt_call.fn = "none"
    /\ \E message \in MessageArgs, parameters \in ParametersArgs :
         LET e == NewMagentoException(message, parameters, NoTrace, NoResponse) IN
         /\ bt_call' = [fn |-> "MagentoException", message |-> message,
                        parameters |-> parameters]
         /\ bt_out' = [exc |-> IF e.type = MagentoException THEN NoError ELSE e.type,
                       text |-> e.text]
    /\ UNCHANGED <<saver_vars, pg_vars, rq_vars, sq_vars, bg_vars, gp_vars, th_vars>>

TextNext == BuildExceptionText \/ ConstructException

SpecText == Init /\ [][TextNext]_vars

-----------------------------------------------------------------------------
(* Threads calling add_item on one BatchSaver: one action per statement *)

\* The instance is handed to one writer, or to two threads that call
\* add_item on it without a lock
StartWriters ==
    /\ th_writers = {}
    /\ \E w \in {{1}, Threads} : th_writers' = w
    /\ UNCHANGED <<th_saver, th, th_written, th_added>>
    /\ UNCHANGED <<saver_vars, pg_vars, rq_vars, sq_vars, bg_vars, bt_vars, gp_vars>>

\* Thread t calls bs.add_item(item): the item is the next rank
BeginAddItem(t) ==
    /\ th[t].pc = "idle"
    /\ th_added < MaxThreadItems
    /\ th_added' = th_added + 1
    /\ th' = [th EXCEPT ![t] = [pc |-> "append", item_data |-> th_added + 1, value |-> 0]]
    /\ UNCHANGED <<th_writers, th_saver, th_written>>
    /\ UNCHANGED <<saver_vars, pg_vars, rq_vars, sq_vars, bg_vars, bt_vars, gp_vars>>

\* self._batch.append(item_data)
AppendItem(t) ==
    /\ th[t].pc = "append"
    /\ th_saver' = append_item(th_saver, th[t].item_data)
    /\ th' = [th EXCEPT ![t].pc = "test"]
    /\ UNCHANGED <<th_writers, th_written, th_added>>
    /\ UNCHANGED <<saver_vars, pg_vars, rq_vars, sq_vars, bg_vars, bt_vars, gp_vars>>

\* if len(self._batch) >= self.batch_size: self.send_batch(), else return
TestFull(t) ==
    /\ th[t].pc = "test"
    /\ th' = [th EXCEPT ![t] = IF batch_full(th_saver) THEN [@ EXCEPT !.pc = "pending"]
                                 ELSE IdleThread]
    /\ UNCHANGED <<th_writers, th_saver, th_written, th_added>>
    /\ UNCHANGED <<saver_vars, pg_vars, rq_vars, sq_vars, bg_vars, bt_vars, gp_vars>>

\* send_batch: if not self._batch: return None
TestPending(t) ==
    /\ th[t].pc = "pending"
    /\ th' = [th EXCEPT ![t] = IF batch_pending(th_saver) THEN [@ EXCEPT !.pc = "put"]
                                 ELSE IdleThread]
    /\ UNCHANGED <<th_writers, th_saver, th_written, th_added>>
    /\ UNCHANGED <<saver_vars, pg_vars, rq_vars, sq_vars, bg_vars, bt_vars, gp_vars>>

\* resp = self._put_batch(): the write carries the buffer as it is now
PutBatch(t) ==
    /\ th[t].pc = "put"
    /\ th_written' = Append(th_written, th_saver.batch)
    /\ th' = [th EXCEPT ![t].pc = "load_items"]
    /\ UNCHANGED <<th_writers, th_saver, th_added>>
    /\ UNCHANGED <<saver_vars, pg_vars, rq_vars, sq_vars, bg_vars, bt_vars, gp_vars>>

\* self._sent_items += len(self._batch): the sum is computed ...
LoadSentItems(t) ==
    /\ th[t].pc = "load_items"
    /\ th' = [th EXCEPT ![t].pc = "store_items", ![t].value = new_sent_items(th_saver)]
    /\ UNCHANGED <<th_writers, th_saver, th_written, th_added>>
    /\ UNCHANGED <<saver_vars, pg_vars, rq_vars, sq_vars, bg_vars, bt_vars, gp_vars>>

\* ... and stored
StoreSentItems(t) ==
    /\ th[t].pc = "store_items"
    /\ th_saver' = [th_saver EXCEPT !.sent_items = th[t].value]
    /\ th' = [th EXCEPT ![t].pc = "load_batches"]
    /\ UNCHANGED <<th_writers, th_written, th_added>>
    /\ UNCHANGED <<saver_vars, pg_vars, rq_vars, sq_vars, bg_vars, bt_vars, gp_vars>>

\* self._sent_batches += 1: the sum is computed ...
LoadSentBatches(t) ==
    /\ th[t].pc = "load_batches"
    /\ th' = [th EXCEPT ![t].pc = "store_batches", ![t].value = new_sent_batches(th_saver)]
    /\ UNCHANGED <<th_writers, th_saver, th_written, th_added>>
    /\ UNCHANGED <<saver_vars, pg_vars, rq_vars, sq_vars, bg_vars, bt_vars, gp_vars>>

\* ... and stored
StoreSentBatches(t) ==
    /\ th[t].pc = "store_batches"
    /\ th_saver' = [th_saver EXCEPT !.sent_batches = th[t].value]
    /\ th' = [th EXCEPT ![t].pc = "new_batch"]
    /\ UNCHANGED <<th_writers, th_written, th_added>>
    /\ UNCHANGED <<saver_vars, pg_vars, rq_vars, sq_vars, bg_vars, bt_vars, gp_vars>>

\* self._batch = [], and both calls return
NewBatch(t) ==
    /\ th[t].pc = "new_batch"
    /\ th_saver' = new_batch(th_saver)
    /\ th' = [th EXCEPT ![t] = IdleThread]
    /\ UNCHANGED <<th_writers, th_written, th_added>>
    /\ UNCHANGED <<saver_vars, pg_vars, rq_vars, sq_vars, bg_vars, bt_vars, gp_vars>>

ThreadsNext ==
    \/ StartWriters
    \/ \E t \in th_writers :
         \/ BeginAddItem(t)
         \/ AppendItem(t)
         \/ TestFull(t)
         \/ TestPending(t)
         \/ PutBatch(t)
         \/ LoadSentItems(t)
         \/ StoreSentItems(t)
         \/ LoadSentBatches(t)
         \/ StoreSentBatches(t)
         \/ NewBatch(t)

SpecThreads == Init /\ [][ThreadsNext]_vars

-----------------------------------------------------------------------------
(* get_product_by_query: the call, and one action per step of its walk *)

\* client.get_product_by_query(query, expect_one=...), on a server where the
\* query matches some number of products: get_products(query=query, limit=...)
\* and the first next() on it.
ProductCall ==
    /\ gp_pc = "idle"
    /\ \E expect_one \in BOOLEAN, matches \in 0..MaxMatches,
          batch_page_size \in {None} \cup {Some(v) : v \in 1..MaxPageSize} :
         LET r == setup([limit |-> products_limit(expect_one), page_size |-> None,
                         client_page_size |-> ClientPageSize(batch_page_size),
                         query |-> SomeQuery(FilterFieldKey :> 7), retry |-> 0]) IN
         /\ gp_call' = [expect_one |-> expect_one, matches |-> matches,
                        client_page_size |-> ClientPageSize(batch_page_size)]
         /\ gp' = r.self
         /\ gp_pc' = r.pc
    /\ UNCHANGED <<gp_products, gp_fetched, gp_out>>
    /\ UNCHANGED <<saver_vars, pg_vars, rq_vars, sq_vars, bg_vars, bt_vars, th_vars>>

\* One page fetch of the walk
ProductFetch ==
    /\ gp_pc = "fetch"
    /\ LET res == MatchingPage(gp_call.matches, PageSizeOf(page_query(gp)),
                               CurrentPageOf(page_query(gp)))
           r == on_page(gp, res) IN
         /\ gp' = r.self
         /\ gp_pc' = r.pc
         /\ gp_fetched' = gp_fetched + Len(res.items)
    /\ UNCHANGED <<gp_call, gp_products, gp_out>>
    /\ UNCHANGED <<saver_vars, pg_vars, rq_vars, sq_vars, bg_vars, bt_vars, th_vars>>

\* The walk yields a product: with expect_one=False the for loop returns it
\* at once; with expect_one=True list() keeps it and asks for the next.
ProductYield ==
    /\ gp_pc = "items"
    /\ IF ~gp_call.expect_one
       THEN /\ gp_out' = ReturnsProduct(Some(Head(gp.items)))
            /\ gp_pc' = "returned"
            /\ UNCHANGED <<gp, gp_products>>
       ELSE LET r == after_yield(gp) IN
            /\ gp_products' = Append(gp_products, Head(gp.items))
            /\ gp' = r.self
            /\ gp_pc' = r.pc
            /\ UNCHANGED gp_out
    /\ UNCHANGED <<gp_call, gp_fetched>>
    /\ UNCHANGED <<saver_vars, pg_vars, rq_vars, sq_vars, bg_vars, bt_vars, th_vars>>

\* The walk is exhausted: the code after the loop, or after list()
ProductDecide ==
    /\ gp_pc = "done"
    /\ gp_out' = decide(gp_call.expect_one, gp_products)
    /\ gp_pc' = IF gp_out'.kind = "raise" THEN "raised" ELSE "returned"
    /\ UNCHANGED <<gp_call, gp, gp_products, gp_fetched>>
    /\ UNCHANGED <<saver_vars, pg_vars, rq_vars, sq_vars, bg_vars, bt_vars, th_vars>>

ProductNext == ProductCall \/ ProductFetch \/ ProductYield \/ ProductDecide

SpecProduct == Init /\ [][ProductNext]_vars

-----------------------------------------------------------------------------
(* BatchGetter: the construction, iter(), and one action per step of __iter__ *)

\* BatchGetter(getter, "sku", keys, batch_size=...)
NewBatchGetter ==
    /\ bg_pc = "none"
    /\ \E batch_size \in 1..MaxBatchSize, m \in 0..MaxKeys :
         \E keys \in {KeysList(m), KeysIterator(m)} :
            bg' = BatchGetter("sku", keys, batch_size)
    /\ bg_pc' = "idle"
    /\ UNCHANGED <<bg_gen, bg_iters, bg_calls, bg_yielded, bg_abandoned>>
    /\ UNCHANGED <<saver_vars, pg_vars, rq_vars, sq_vars, bt_vars, gp_vars, th_vars>>

\* iter(bg) and the first next(), once the previous run is over or was left
Iter ==
    /\ bg_pc \in {"idle", "done", "raised", "abandoned"}
    /\ bg_iters < MaxIterations
    /\ bg_gen' = iter_(bg)
    /\ bg_iters' = bg_iters + 1
    /\ bg_pc' = "loop"
    /\ UNCHANGED <<bg, bg_calls, bg_yielded, bg_abandoned>>
    /\ UNCHANGED <<saver_vars, pg_vars, rq_vars, sq_vars, bt_vars, gp_vars, th_vars>>

\* for key in self.keys: one key
TakeKey ==
    /\ bg_pc = "loop"
    /\ HasKey(bg, bg_gen)
    /\ LET r == take_key(bg, bg_gen) IN
         /\ bg' = r.self
         /\ bg_gen' = r.gen
         /\ bg_pc' = r.pc
    /\ UNCHANGED <<bg_iters, bg_calls, bg_yielded, bg_abandoned>>
    /\ UNCHANGED <<saver_vars, pg_vars, rq_vars, sq_vars, bt_vars, gp_vars, th_vars>>

\* for key in self.keys: no key left
KeysExhausted ==
    /\ bg_pc = "loop"
    /\ ~HasKey(bg, bg_gen)
    /\ LET r == keys_exhausted(bg, bg_gen) IN
         /\ bg' = r.self
         /\ bg_gen' = r.gen
         /\ bg_pc' = r.pc
    /\ UNCHANGED <<bg_iters, bg_calls, bg_yielded, bg_abandoned>>
    /\ UNCHANGED <<saver_vars, pg_vars, rq_vars, sq_vars, bt_vars, gp_vars, th_vars>>

\* _get_batch(): returns at once on an empty batch; else calls the getter,
\* which returns any number of results (the next n items it has).
GetBatch ==
    /\ bg_pc = "get"
    /\ LET c == get_batch(bg) IN
         IF ~c.call
         THEN /\ bg_pc' = AfterGetBatch(bg_gen)
              /\ UNCHANGED <<bg_gen, bg_calls>>
         ELSE \E n \in 0..MaxResults :
                LET results == [i \in 1..n |-> Handed(bg_calls) + i] IN
                /\ bg_calls' = Append(bg_calls,
                                      [iter |-> bg_iters, batch |-> bg._batch,
                                       query |-> c.query, limit |-> c.limit,
                                       raised |-> FALSE, results |-> results])
                /\ bg_gen' = [bg_gen EXCEPT !.pending = results]
                /\ bg_pc' = "yield"
    /\ UNCHANGED <<bg, bg_iters, bg_yielded, bg_abandoned>>
    /\ UNCHANGED <<saver_vars, pg_vars, rq_vars, sq_vars, bt_vars, gp_vars, th_vars>>

\* The getter raises: the exception ends the generator, the batch stays.
GetterRaises ==
    /\ bg_pc = "get"
    /\ LET c == get_batch(bg) IN
         /\ c.call
         /\ bg_calls' = Append(bg_calls,
                               [iter |-> bg_iters, batch |-> bg._batch,
                                query |-> c.query, limit |-> c.limit,
                                raised |-> TRUE, results |-> <<>>])
    /\ bg_pc' = "raised"
    /\ UNCHANGED <<bg, bg_gen, bg_iters, bg_yielded, bg_abandoned>>
    /\ UNCHANGED <<saver_vars, pg_vars, rq_vars, sq_vars, bt_vars, gp_vars, th_vars>>

\* yield from: one result handed to the consumer
YieldResult ==
    /\ bg_pc = "yield"
    /\ bg_gen.pending # <<>>
    /\ bg_yielded' = Append(bg_yielded, [iter |-> bg_iters, item |-> Head(bg_gen.pending)])
    /\ bg_gen' = [bg_gen EXCEPT !.pending = Tail(@)]
    /\ UNCHANGED <<bg, bg_pc, bg_iters, bg_calls, bg_abandoned>>
    /\ UNCHANGED <<saver_vars, pg_vars, rq_vars, sq_vars, bt_vars, gp_vars, th_vars>>

\* The next next() after the last result: self._batch = [] and the return
\* of _get_batch
EndBatch ==
    /\ bg_pc = "yield"
    /\ bg_gen.pending = <<>>
    /\ LET r == end_batch(bg, bg_gen) IN
         /\ bg' = r.self
         /\ bg_gen' = r.gen
         /\ bg_pc' = r.pc
    /\ UNCHANGED <<bg_iters, bg_calls, bg_yielded, bg_abandoned>>
    /\ UNCHANGED <<saver_vars, pg_vars, rq_vars, sq_vars, bt_vars, gp_vars, th_vars>>

\* The consumer leaves the iteration while the generator is suspended at a
\* yield of _get_batch (a break, a next() without a loop): the generator is
\* never resumed, so `self._batch = []` does not run.
Abandon ==
    /\ bg_pc = "yield"
    /\ Len(bg_gen.pending) < Len(bg_calls[Len(bg_calls)].results)
    /\ bg_pc' = "abandoned"
    /\ bg_abandoned' = bg_abandoned \cup {bg_iters}
    /\ UNCHANGED <<bg, bg_gen, bg_iters, bg_calls, bg_yielded>>
    /\ UNCHANGED <<saver_vars, pg_vars, rq_vars, sq_vars, bt_vars, gp_vars, th_vars>>

GetterNext ==
    \/ NewBatchGetter \/ Iter \/ TakeKey \/ KeysExhausted
    \/ GetBatch \/ GetterRaises \/ YieldResult \/ EndBatch \/ Abandon

SpecGetter == Init /\ [][GetterNext]_vars

-----------------------------------------------------------------------------
(* Properties of BatchSaver *)

\* No write has raised so far.
NoPutFailed == \A i \in 1..Len(put_log) : put_log[i].ok

\* Only add_item has been called so far (the with-block, if any, is still open).
OnlyAdded == n_flush = 0 /\ ctx.state # "exited"

\* The writes issued from inside a call of the given name.
PutsVia(via) == SelectSeq(put_log, LAMBDA e : e.via = via)

\* C1: with batch_size = N and no failing write, after k*N + r add_item calls
\* (0 <= r < N) exactly k writes were issued automatically; a finalize() that
\* follows issues one more write iff r > 0 and returns sent_items = k*N + r and
\* sent_batches = k + (1 if r > 0 else 0).
C1_FlushBoundary ==
    LET N == saver.batch_size
        k == n_added \div N
        r == n_added % N
        extra == IF r > 0 THEN 1 ELSE 0
    IN  NoPutFailed =>
          /\ OnlyAdded =>
               /\ Len(PutsVia("add_item")) = k
               /\ Len(put_log) = k
          /\ (n_flush = 1 /\ ctx.state # "exited" /\ last_call.op = "finalize") =>
               /\ Len(PutsVia("add_item")) = k
               /\ Len(PutsVia("finalize")) = extra
               /\ Len(put_log) = k + extra
               /\ last_call.exc = NoError
               /\ last_call.ret = [kind |-> "totals", sent_batches |-> k + extra,
                                   sent_items |-> k * N + r]

\* C1 witness: batch_size 2, five items added (k = 2, r = 1), then finalize().
C1_Witness ==
    /\ saver.batch_size = 2
    /\ n_added = 5
    /\ NoPutFailed
    /\ n_flush = 1
    /\ last_call.op = "finalize"
    /\ last_call.ret = [kind |-> "totals", sent_batches |-> 3, sent_items |-> 5]
    /\ Len(PutsVia("add_item")) = 2

\* C2 as stated: with no failing write, the batches written, concatenated in
\* order (followed by what is still buffered), are the items added, in order,
\* and every batch not written by finalize() holds exactly batch_size items.
C2_AsStated ==
    NoPutFailed =>
      /\ Concat(ItemsOf(put_log)) \o saver.batch = Range(n_added)
      /\ \A i \in 1..Len(put_log) :
           put_log[i].via \notin {"finalize", "__exit__"}
             => Len(put_log[i].items) = saver.batch_size

\* C2 amended: with no failing write, the batches written, concatenated in
\* order (followed by what is still buffered), are the items added, in order;
\* every batch written automatically by add_item holds exactly batch_size
\* items, and a batch written by an explicit send_batch() or finalize() holds
\* between 1 and batch_size - 1 items.
C2_BatchesPreserveItems ==
    NoPutFailed =>
      /\ Concat(ItemsOf(put_log)) \o saver.batch = Range(n_added)
      /\ saver.batch = <<>> => Concat(ItemsOf(put_log)) = Range(n_added)
      /\ \A i \in 1..Len(put_log) :
           /\ put_log[i].via = "add_item" => Len(put_log[i].items) = saver.batch_size
           /\ put_log[i].via # "add_item" => Len(put_log[i].items) \in 1..(saver.batch_size - 1)

\* C2 witness: a full automatic batch, then a short batch written by an
\* explicit send_batch(), nothing left in the buffer.
C2_Witness ==
    /\ NoPutFailed
    /\ saver.batch_size = 3
    /\ n_added = 4
    /\ saver.batch = <<>>
    /\ put_log = << [items |-> <<1, 2, 3>>, ok |-> TRUE, via |-> "add_item"],
                    [items |-> <<4>>, ok |-> TRUE, via |-> "send_batch"] >>

\* C3: once a finalize() or send_batch() has returned, another finalize() or
\* send_batch() with no add_item in between issues no write, leaves the
\* counters (and the buffer) as they were, and does not raise; send_batch()
\* returns None and finalize() returns the same totals as before.
C3_IdempotentFlush ==
    [][ ( /\ last_call.op \in {"finalize", "send_batch", "__exit__"}
          /\ last_call.exc = NoError
          /\ n_flush' = n_flush + 1 )
        => /\ put_log' = put_log
           /\ saver' = saver
           /\ last_call'.exc = NoError
           /\ last_call'.op = "send_batch" => last_call'.ret = ReturnsNone
           /\ last_call'.op = "finalize" =>
                /\ last_call'.ret = ReturnsTotals(saver)
                /\ last_call.op = "finalize" => last_call'.ret = last_call.ret
      ]_vars

\* C3 witness: one item added, finalize() wrote it, then send_batch() was a
\* no-op returning None.
C3_Witness ==
    /\ n_added = 1
    /\ n_flush = 2
    /\ put_log = << [items |-> <<1>>, ok |-> TRUE, via |-> "finalize"] >>
    /\ last_call = [op |-> "send_batch", exc |-> NoError, ret |-> ReturnsNone]
    /\ saver.sent_items = 1
    /\ saver.sent_batches = 1

\* C4: leaving the with-block, whether its body completed or raised, runs
\* finalize() once, which sends whatever is buffered in one write; when that
\* finalize() did not raise, the buffer is empty afterwards and sent_items is
\* the number of items added.
C4_FinalizeOnEveryExit ==
    /\ [][ (ctx.state = "in" /\ ctx'.state # "in")
           => /\ n_finalize' = n_finalize + 1
              /\ saver.batch = <<>> => put_log' = put_log
              /\ saver.batch # <<>> =>
                   \E ok \in BOOLEAN :
                     put_log' = Append(put_log, [items |-> saver.batch, ok |-> ok,
                                                 via |-> "__exit__"])
         ]_vars
    /\ [](  (ctx.state = "exited" /\ ctx.exit_exc = NoError)
            => /\ saver.batch = <<>>
               /\ saver.sent_items = n_added )

\* C4 witness: the body raised with two items buffered, and __exit__ sent them.
C4_Witness ==
    /\ ctx.state = "exited"
    /\ ctx.body_raised
    /\ ctx.exit_exc = NoError
    /\ saver.batch_size = 3
    /\ n_added = 2
    /\ put_log = << [items |-> <<1, 2>>, ok |-> TRUE, via |-> "__exit__"] >>

\* C5: when the write raises inside send_batch (called directly, by add_item or
\* by finalize), the call raises that same exception, exactly one write was
\* attempted (no retry), the counters are not incremented and the buffer holds
\* every pending item, the one just added included.
C5_FailedWriteKeepsItems ==
    [][ ( /\ Len(put_log') > Len(put_log)
          /\ ~put_log'[Len(put_log')].ok )
        => /\ last_call'.exc = PutError
           /\ Len(put_log') = Len(put_log) + 1
           /\ saver'.sent_batches = saver.sent_batches
           /\ saver'.sent_items = saver.sent_items
           /\ saver'.batch = (IF n_added' > n_added
                              THEN Append(saver.batch, n_added')
                              ELSE saver.batch)
           /\ put_log'[Len(put_log')].items = saver'.batch
      ]_vars

\* C5 witness: the automatic write of add_item raised; the full buffer is kept.
C5_Witness ==
    /\ last_call.op = "add_item"
    /\ last_call.exc = PutError
    /\ saver.batch_size = 2
    /\ saver.batch = <<1, 2>>
    /\ saver.sent_items = 0
    /\ put_log = << [items |-> <<1, 2>>, ok |-> FALSE, via |-> "add_item"] >>

-----------------------------------------------------------------------------
(* Properties of get_paginated *)

\* The number of items the walk is expected to yield from a server holding
\* T items: min(limit, T) with a positive limit, T with a negative one.
Threshold(T) == IF pg_args.limit > 0 THEN Min(pg_args.limit, T) ELSE T

\* The server has answered every fetch with the same total_count T and with a
\* non-empty page as long as it had handed out fewer than T items (and with an
\* empty page after that).
NonEmptyPagesUpTo(T) ==
    \A i \in 1..Len(responses) :
      /\ responses[i].has_items
      /\ responses[i].has_total
      /\ responses[i].total = T
      /\ Served(responses, i - 1) < T => Len(responses[i].items) >= 1
      /\ Served(responses, i - 1) >= T => Len(responses[i].items) = 0

\* C6: with limit # 0 and a server answering non-empty pages until their
\* cumulative size reaches its constant total_count T, the walk yields the
\* first min(limit, T) items (T when limit < 0) of the pages, in page order
\* then in-page order, and no fetch is issued once that many items were
\* handed out.
C6_YieldsExactlyThreshold ==
    ( /\ pg_args.limit # 0
      /\ pg_pc # "raised"
      /\ responses # <<>>
      /\ NonEmptyPagesUpTo(responses[1].total) )
    => LET T == responses[1].total IN
       /\ Len(yielded) <= Threshold(T)
       /\ pg_pc = "done" => Len(yielded) = Threshold(T)
       /\ yielded = SubSeq(Concat(ItemsOf(responses)), 1, Len(yielded))
       /\ \A i \in 2..Len(requests) : Served(responses, i - 1) < Threshold(T)

\* C6 witness: pages [1, 2] then [3] with total_count 3 and limit -1: the walk
\* yielded 1, 2, 3 and ended after two fetches.
C6_Witness ==
    /\ pg_args.limit = -1
    /\ pg_pc = "done"
    /\ yielded = <<1, 2, 3>>
    /\ Len(requests) = 2
    /\ Len(responses) = 2
    /\ responses[1].items = <<1, 2>> /\ responses[1].total = 3
    /\ responses[2].items = <<3>> /\ responses[2].total = 3

\* The largest total_count read so far (total_count is read off non-empty
\* pages only); 0 when none was read.
RECURSIVE MaxTotalRead(_)
MaxTotalRead(n) ==
    IF n = 0 THEN 0
    ELSE IF responses[n].items # <<>> /\ responses[n].has_total
         THEN Max(responses[n].total, MaxTotalRead(n - 1))
         ELSE MaxTotalRead(n - 1)

\* C7 as stated: whatever the server answers, the walk never yields more than
\* limit items when limit > 0, and never more than the total_count it read.
C7_AsStated ==
    /\ pg_args.limit > 0 => Len(yielded) <= pg_args.limit
    /\ pg_pc \in {"fetch", "items", "done"} => Len(yielded) <= pg.total_count

\* C7 amended: whatever the server answers, the walk never yields more than
\* limit items when limit > 0, and never more than max(1, M) items, M being the
\* largest total_count it read so far: the first item of a page is yielded
\* before count is compared with that page's total_count.
C7_YieldBounds ==
    /\ pg_args.limit > 0 => Len(yielded) <= pg_args.limit
    /\ Len(yielded) <= Max(1, MaxTotalRead(Len(responses)))
    /\ Len(yielded) = pg.count

\* C7 witness: a page of two items reporting total_count 0: one item is
\* yielded and the walk ends.
C7_Witness ==
    /\ pg_pc = "done"
    /\ Len(responses) = 1
    /\ Len(responses[1].items) = 2
    /\ responses[1].has_total /\ responses[1].total = 0
    /\ yielded = <<1>>

\* Every page answered so far holds at most the pageSize asked for, and
\* reports the same total_count T.
PagesAtMostPageSize(T) ==
    \A i \in 1..Len(responses) :
      /\ responses[i].has_items
      /\ responses[i].has_total
      /\ responses[i].total = T
      /\ Len(responses[i].items) <= PageSizeOf(requests[i])

\* Every page answered so far is the full page asked for: of a collection of
\* T items, page currentPage of size pageSize (what is left of it on the last
\* page, nothing beyond), with total_count T.
FullPages(T) ==
    \A i \in 1..Len(responses) :
      /\ responses[i].has_items
      /\ responses[i].has_total
      /\ responses[i].total = T
      /\ Len(responses[i].items) =
           Min(PageSizeOf(requests[i]),
               Max(0, T - (CurrentPageOf(requests[i]) - 1) * PageSizeOf(requests[i])))

\* C8 as stated: with limit # 0 and pages of at most page_size items, the walk
\* issues at most ceil(min(limit, total_count) / page_size) fetches
\* (ceil(total_count / page_size) when limit < 0).
C8_AsStated ==
    ( /\ pg_args.limit # 0
      /\ responses # <<>>
      /\ PagesAtMostPageSize(responses[1].total) )
    => Len(requests) <= CeilDiv(Threshold(responses[1].total), pg.page_size)

\* C8 amended: with limit # 0 and a server that answers every fetch with the
\* full page asked for and a constant total_count, the walk issues at most
\* max(1, ceil(min(limit, total_count) / page_size)) fetches
\* (max(1, ceil(total_count / page_size)) when limit < 0).
C8_FetchBound ==
    ( /\ pg_args.limit # 0
      /\ responses # <<>>
      /\ FullPages(responses[1].total) )
    => Len(requests) <= Max(1, CeilDiv(Threshold(responses[1].total), pg.page_size))

\* C8 witness: limit 3, page size 2, three items: two fetches, ceil(3 / 2).
C8_Witness ==
    /\ pg_args.limit = 3
    /\ pg.page_size = 2
    /\ pg_pc = "done"
    /\ FullPages(3)
    /\ Len(requests) = 2
    /\ yielded = <<1, 2, 3>>

\* C9: a walk called with limit = 0 yields nothing and fetches nothing,
\* whatever query, page_size and retry it was given.
C9_ZeroLimit ==
    (pg_pc # "idle" /\ pg_args.limit = 0)
    => /\ yielded = <<>>
       /\ requests = <<>>
       /\ pg_pc \in {"start", "done"}

\* C9 witness: the walk with limit 0 and page_size 2 has ended.
C9_Witness ==
    /\ pg_pc = "done"
    /\ pg_args.limit = 0
    /\ pg_args.page_size = Some(2)
    /\ pg_args.query.given
    /\ pg_args.retry = 2
    /\ requests = <<>>

\* C10: a fetch answered with an empty or missing items list ends the walk at
\* once: nothing more is yielded and no further fetch is issued, whatever
\* count, total_count and limit are.
C10_EmptyPageStops ==
    /\ [][ ( /\ Len(responses') > Len(responses)
             /\ responses'[Len(responses')].items = <<>> )
           => /\ pg_pc' = "done"
              /\ yielded' = yielded ]_vars
    /\ [][ pg_pc = "done" => (yielded' = yielded /\ requests' = requests) ]_vars

\* C10 witness: two items of three were yielded, with limit 3, when a page
\* without an items list ended the walk.
C10_Witness ==
    /\ pg_pc = "done"
    /\ pg_args.limit = 3
    /\ yielded = <<1, 2>>
    /\ pg.total_count = 3
    /\ Len(responses) = 2
    /\ ~responses[2].has_items

\* The page size the walk is to send: page_size if given, else the client's
\* PAGE_SIZE; the limit instead when 0 < limit < that default.
PageSizeDefault ==
    IF pg_args.page_size.given THEN pg_args.page_size.value ELSE pg_args.client_page_size

ExpectedPageSize ==
    IF 0 < pg_args.limit /\ pg_args.limit < PageSizeDefault
    THEN Min(PageSizeDefault, pg_args.limit)
    ELSE PageSizeDefault

\* C11: every fetch carries pageSize = min(page_size_default, limit) when
\* 0 < limit < page_size_default and page_size_default otherwise, where
\* page_size_default is the page_size argument if given and the client's
\* PAGE_SIZE if not (a pageSize key of the caller's query is overwritten).
C11_EffectivePageSize ==
    \A i \in 1..Len(requests) : PageSizeOf(requests[i]) = ExpectedPageSize

\* C11 witness: limit 1 with page_size 2 and a query that has its own
\* pageSize 9: the fetch asked for pages of 1.
C11_Witness ==
    /\ pg_args.limit = 1
    /\ pg_args.page_size = Some(2)
    /\ pg_args.query.given
    /\ Len(requests) = 1
    /\ PageSizeOf(requests[1]) = 1

\* The number of fetches that returned a non-empty page.
NonEmptyFetches == Len(SelectSeq(responses, LAMBDA r : r.items # <<>>))

\* C12: with a consumer that keeps asking and fetches that come back, the walk
\* ends; it never issues more than max(1, M) fetches, M being the largest
\* total_count it read, and with limit > 0 at most limit fetches return items.
C12_Terminates ==
    /\ <>(pg_pc \in {"done", "raised"})
    /\ [](Len(requests) <= Max(1, MaxTotalRead(Len(responses))))
    /\ [](pg_args.limit > 0 => NonEmptyFetches <= pg_args.limit)

\* C12 witness: limit 2, two one-item pages of a collection of three: the
\* walk ended after two fetches.
C12_Witness ==
    /\ pg_pc = "done"
    /\ pg_args.limit = 2
    /\ Len(requests) = 2
    /\ NonEmptyFetches = 2
    /\ pg.total_count = 3
    /\ yielded = <<1, 2>>

\* C13: when a fetch raises, that exception leaves the generator unchanged,
\* the walk issues no further fetch (neither of that page nor of a later one)
\* and yields nothing more; what it yielded before is all the items of the
\* pages fetched before the failure, in order.
C13_FetchErrorPropagates ==
    /\ [][ ( /\ Len(requests') > Len(requests)
             /\ Len(responses') = Len(responses) )
           => /\ pg_pc' = "raised"
              /\ pg_exc'.fetch \in FetchErrors
              /\ pg_exc'.out = pg_exc'.fetch
              /\ yielded' = yielded ]_vars
    /\ [][ pg_pc = "raised" => (requests' = requests /\ yielded' = yielded) ]_vars
    /\ []( (pg_pc = "raised" /\ pg_exc.fetch # NoError)
           => /\ yielded = Concat(ItemsOf(responses))
              /\ Len(requests) = Len(responses) + 1 )

\* C13 witness: the first page gave two items of three, the second fetch
\* raised an HTTP error.
C13_Witness ==
    /\ pg_pc = "raised"
    /\ pg_exc = [fetch |-> HTTPError, out |-> HTTPError]
    /\ Len(requests) = 2
    /\ Len(responses) = 1
    /\ responses[1].total = 3
    /\ yielded = <<1, 2>>

-----------------------------------------------------------------------------
(* Properties of request_api and raise_for_response *)

\* The requests issued and the sleeps taken so far.
RequestsIssued == Len(SelectSeq(rq_events, LAMBDA e : e.op = "request"))
Sleeps == Len(SelectSeq(rq_events, LAMBDA e : e.op = "sleep"))

\* The call is over, and a response was obtained from its last request.
Ended == rq_pc \in {"returned", "raised"}
NoAnswer == rq_pc = "raised" /\ rq_out.exc.type = ConnectionError
Evaluated == Ended /\ ~NoAnswer
LastResponse == rq_responses[Len(rq_responses)]

\* C14: request_api(retry = n) issues between 1 and n + 1 requests; every
\* request but the first follows a failed response and one sleep of 10, with
\* budget left (so sleeps = requests - 1 when the call ends); no request
\* follows a successful response; the response returned, or the one
\* raise_for_response is applied to, is the last one obtained, and a failed
\* one is final only when the budget is used up.
C14_RetryLoop ==
    /\ RequestsIssued <= rq_args.retry + 1
    /\ \A i \in 1..Len(rq_events) :
         rq_events[i] = IF i % 2 = 1 THEN [op |-> "request", secs |-> 0]
                                     ELSE [op |-> "sleep", secs |-> BACKOFF]
    /\ \A i \in 1..(Len(rq_responses) - 1) : ~rq_responses[i].ok
    /\ rq_pc # "idle" =>
         /\ rq.retry >= 0
         /\ rq.retry = rq_args.retry - Sleeps - (IF rq_pc = "sleep" THEN 1 ELSE 0)
    /\ Ended => RequestsIssued >= 1 /\ Sleeps = RequestsIssued - 1
    /\ Evaluated =>
         /\ Len(rq_responses) = RequestsIssued
         /\ LastResponse.ok \/ RequestsIssued = rq_args.retry + 1
         /\ rq_pc = "returned" => rq_out = Returned(LastResponse)
         /\ rq_pc = "raised" => rq_out = Raised(raise_for_response(LastResponse))

\* C14 witness: retry 2, two failures then a success: three requests, two
\* sleeps, the third response returned.
C14_Witness ==
    /\ rq_args.retry = 2
    /\ rq_pc = "returned"
    /\ Len(rq_responses) = 3
    /\ ~rq_responses[1].ok /\ ~rq_responses[2].ok /\ rq_responses[3].ok
    /\ RequestsIssued = 3 /\ Sleeps = 2
    /\ rq_out.ret = rq_responses[3]

\* C15: with throw=False the call never raises because of a failing response
\* and returns the last response; with throw=True it raises iff the last
\* response, after all retries, is a failure.
C15_ThrowOnlyOnFinalFailure ==
    Evaluated =>
        /\ ~rq_args.throw => rq_pc = "returned" /\ rq_out = Returned(LastResponse)
        /\ rq_args.throw => (rq_pc = "raised" <=> ~LastResponse.ok)

\* C15 witness: throw=True, a failure then a successful retry: no exception.
C15_Witness ==
    /\ rq_args.throw
    /\ Len(rq_responses) = 2
    /\ ~rq_responses[1].ok /\ rq_responses[2].ok
    /\ rq_pc = "returned"
    /\ rq_out.ret = rq_responses[2]

\* The body is a JSON object containing a "message" field.
IsMessageObject(r) == r.json.valid /\ r.json.is_dict /\ r.json.has_message

\* The parameters supply every placeholder of the message (parameters that
\* are empty, or neither a list nor a mapping, are never looked up).
Supplied(message, parameters) ==
    \/ Falsy(parameters)
    \/ parameters.kind = "other"
    \/ \A i \in 1..Len(message) :
         message[i].ph =>
            IF parameters.kind = "dict" THEN message[i].s \in DOMAIN parameters.dict
            ELSE /\ message[i].s \in DOMAIN IntOf
                 /\ IntOf[message[i].s] <= Len(parameters.list)

\* The exception carries the message, parameters and trace of the body, and
\* the response.
Carries(e, r) ==
    /\ e.message = r.json.message
    /\ e.parameters = r.json.parameters
    /\ e.trace = r.json.trace
    /\ e.response = r

-----------------------------------------------------------------------------
(* Properties of the query builders *)

\* The filter at index f of group g of the call made (indexes from 0).
FilterAt(g, f) == sq_call.filter_groups[g + 1][f + 1]

FilterPositions ==
    { <<g, f>> \in (0..(MaxGroups + 1)) \X (0..(MaxFilters + 1)) :
        g < Len(sq_call.filter_groups) /\ f < Len(sq_call.filter_groups[g + 1]) }

\* C20 as stated: the condition_type key is left out when the filter's
\* condition_type is None or "eq", and carries the value otherwise.
C20_AsStated ==
    sq_call.fn = "make_search_query" =>
        \A p \in FilterPositions :
            LET c == FilterAt(p[1], p[2]).condition_type
                k == FilterKey(p[1], p[2], "condition_type") IN
            IF ~c.given \/ c.value = "eq" THEN k \notin DOMAIN sq_out
            ELSE k \in DOMAIN sq_out /\ sq_out[k] = c.value

\* C20: the condition_type key of a filter is left out only when the filter's
\* condition_type is None; for every other condition_type, "eq" included, it
\* is written with the given value.
C20_ConditionTypeKey ==
    sq_call.fn = "make_search_query" =>
        \A p \in FilterPositions :
            LET c == FilterAt(p[1], p[2]).condition_type
                k == FilterKey(p[1], p[2], "condition_type") IN
            IF ~c.given THEN k \notin DOMAIN sq_out
            ELSE k \in DOMAIN sq_out /\ sq_out[k] = c.value

\* C20 witness: [[("sku", "A", "eq"), ("sku", "A", None)], [("name", "B", "in")]]
\* gives condition_type keys "eq" at (0, 0), none at (0, 1), "in" at (1, 0).
C20_Witness ==
    /\ sq_call.fn = "make_search_query"
    /\ sq_call.filter_groups =
         << <<Filter("sku", "A", Condition("eq")), Filter("sku", "A", NoCondition)>>,
            <<Filter("name", "B", Condition("in"))>> >>
    /\ sq_out["searchCriteria[filter_groups][0][filters][0][condition_type]"] = "eq"
    /\ "searchCriteria[filter_groups][0][filters][1][condition_type]" \notin DOMAIN sq_out
    /\ sq_out["searchCriteria[filter_groups][1][filters][0][condition_type]"] = "in"

-----------------------------------------------------------------------------
(* Properties of BatchGetter *)

\* The getter calls and the items yielded of the n-th iteration.
CallsOf(n) == SelectSeq(bg_calls, LAMBDA c : c.iter = n)
YieldedOf(n) ==
    LET ys == SelectSeq(bg_yielded, LAMBDA y : y.iter = n) IN
    [i \in 1..Len(ys) |-> ys[i].item]

\* The results of a sequence of getter calls, one after the other.
RECURSIVE ResultsOf(_)
ResultsOf(calls) ==
    IF calls = <<>> THEN <<>> ELSE calls[1].results \o ResultsOf(Tail(calls))

\* The batches of a sequence of getter calls, one after the other.
RECURSIVE BatchesOf(_)
BatchesOf(calls) ==
    IF calls = <<>> THEN <<>> ELSE calls[1].batch \o BatchesOf(Tail(calls))

\* The first iteration ran to its end.
FirstCompleted ==
    /\ bg_iters >= 1
    /\ bg_iters = 1 => bg_pc = "done"
    /\ 1 \notin bg_abandoned
    /\ \A i \in 1..Len(bg_calls) : bg_calls[i].iter = 1 => ~bg_calls[i].raised

\* C17: a full iteration over m keys with batch_size b calls the getter
\* exactly ceil(m / b) times (never when m = 0) and yields the results of the
\* calls one after the other, in call order; before its end it has yielded a
\* prefix of them.
C17_CallsAndResults ==
    LET m == Len(bg.keys.items)
        calls == CallsOf(1)
        out == YieldedOf(1)
        all == ResultsOf(calls) IN
    bg_pc # "none" =>
        /\ Len(calls) <= CeilDiv(m, bg.batch_size)
        /\ Len(out) <= Len(all) /\ out = SubSeq(all, 1, Len(out))
        /\ FirstCompleted => Len(calls) = CeilDiv(m, bg.batch_size) /\ out = all

\* C17 witness: 3 keys, batch_size 2: two getter calls, giving <<1, 2>> and
\* <<3>>, and the three items yielded in that order.
C17_Witness ==
    /\ bg_pc = "done" /\ bg_iters = 1
    /\ Len(bg.keys.items) = 3 /\ bg.batch_size = 2
    /\ Len(bg_calls) = 2
    /\ bg_calls[1].results = <<1, 2>> /\ bg_calls[2].results = <<3>>
    /\ YieldedOf(1) = <<1, 2, 3>>

\* The query for key_field IN the keys of a batch.
InQuery(key_field, batch) ==
    (FilterKey(0, 0, "field") :> key_field)
        @@ (FilterKey(0, 0, "value") :> Join(batch))
        @@ (FilterKey(0, 0, "condition_type") :> "in")

\* The keys of the k-th batch of an iteration over all the keys, as strings.
BatchKeys(k) ==
    LET first == (k - 1) * bg.batch_size
        n == Min(bg.batch_size, Len(bg.keys.items) - first) IN
    [j \in 1..n |-> ToString(bg.keys.items[first + j])]

\* C18 as stated: every getter call of an iteration carries the IN query of
\* its batch and limit = batch_size.
C18_AsStated ==
    LET calls == CallsOf(1) IN
    /\ \A k \in 1..Len(calls) :
         /\ calls[k].batch = BatchKeys(k)
         /\ calls[k].query = InQuery(bg.key_field, BatchKeys(k))
         /\ calls[k].limit = bg.batch_size
    /\ FirstCompleted =>
         BatchesOf(calls) = [i \in 1..Len(bg.keys.items) |-> ToString(bg.keys.items[i])]

\* C18: every getter call of an iteration carries the query key_field IN
\* (the keys of its batch as strings, comma-joined in input order,
\* condition_type "in") and limit = the number of keys of the batch, which is
\* batch_size except for a last partial batch; the batches one after the
\* other are the input keys in order.
C18_QueryAndLimit ==
    LET calls == CallsOf(1) IN
    /\ \A k \in 1..Len(calls) :
         /\ calls[k].batch = BatchKeys(k)
         /\ calls[k].query = InQuery(bg.key_field, BatchKeys(k))
         /\ calls[k].limit = Len(BatchKeys(k))
         /\ calls[k].limit \in 1..bg.batch_size
         /\ calls[k].limit < bg.batch_size
              => k = CeilDiv(Len(bg.keys.items), bg.batch_size)
    /\ FirstCompleted =>
         BatchesOf(calls) = [i \in 1..Len(bg.keys.items) |-> ToString(bg.keys.items[i])]

\* C18 witness: 3 keys, batch_size 2: sku IN "1,2" with limit 2, then
\* sku IN "3" with limit 1.
C18_Witness ==
    /\ bg_pc = "done" /\ bg_iters = 1
    /\ Len(bg_calls) = 2
    /\ bg_calls[1].query["searchCriteria[filter_groups][0][filters][0][field]"] = "sku"
    /\ bg_calls[1].query["searchCriteria[filter_groups][0][filters][0][value]"] = "1,2"
    /\ bg_calls[1].query["searchCriteria[filter_groups][0][filters][0][condition_type]"] = "in"
    /\ bg_calls[1].limit = 2
    /\ bg_calls[2].query["searchCriteria[filter_groups][0][filters][0][value]"] = "3"
    /\ bg_calls[2].limit = 1

\* C19 as stated: once a first iteration has run to its end, a second one
\* makes no getter call and yields nothing, whatever the keys.
C19_AsStated ==
    FirstCompleted => CallsOf(2) = <<>> /\ YieldedOf(2) = <<>>

\* C19: once a first iteration has run to its end, a second one makes no
\* getter call and yields nothing when the keys are a one-shot iterator (or
\* empty); when they are a collection, it reads them again: run to its end,
\* it has made the same ceil(m / b) calls with the same batches.
C19_SecondIteration ==
    FirstCompleted =>
        /\ bg.keys.kind = "iterator" => CallsOf(2) = <<>> /\ YieldedOf(2) = <<>>
        /\ Len(bg.keys.items) = 0 => CallsOf(2) = <<>> /\ YieldedOf(2) = <<>>
        /\ ( /\ bg.keys.kind = "list"
             /\ bg_iters = 2 /\ bg_pc = "done"
             /\ \A i \in 1..Len(bg_calls) : ~bg_calls[i].raised )
           => /\ Len(CallsOf(2)) = CeilDiv(Len(bg.keys.items), bg.batch_size)
              /\ BatchesOf(CallsOf(2)) = BatchesOf(CallsOf(1))
              /\ YieldedOf(2) = ResultsOf(CallsOf(2))

\* C19 witness: a list of 2 keys, batch_size 2, iterated twice to the end:
\* the second iteration called the getter again for "1,2" and yielded its
\* result.
C19_Witness ==
    /\ bg.keys.kind = "list"
    /\ bg_iters = 2 /\ bg_pc = "done"
    /\ Len(bg_calls) = 2
    /\ bg_calls[1].iter = 1 /\ bg_calls[2].iter = 2
    /\ bg_calls[2].batch = <<"1", "2">>
    /\ bg_calls[2].results # <<>>
    /\ YieldedOf(2) = bg_calls[2].results

-----------------------------------------------------------------------------
(* Properties of the query builders, continued *)

\* The number of keys the filters of a group, and of all groups, call for:
\* 3 for a filter with a condition_type, 2 for one without.
RECURSIVE FilterKeyCount(_)
FilterKeyCount(filter_group) ==
    IF filter_group = <<>> THEN 0
    ELSE (IF filter_group[1].condition_type.given THEN 3 ELSE 2)
             + FilterKeyCount(Tail(filter_group))

RECURSIVE GroupsKeyCount(_)
GroupsKeyCount(filter_groups) ==
    IF filter_groups = <<>> THEN 0
    ELSE FilterKeyCount(filter_groups[1]) + GroupsKeyCount(Tail(filter_groups))

\* The number of keys the call made must produce if no two writes collide.
ExpectedKeyCount ==
    GroupsKeyCount(sq_call.filter_groups)
        + 2 * Len(sq_call.sort_orders.value)
        + (IF sq_call.page_size.given THEN 1 ELSE 0)
        + (IF sq_call.current_page.given THEN 1 ELSE 0)

\* Every filter has its field and value keys, and a condition_type key iff
\* its condition_type is not None; the keys are as many as the writes.
FilterKeysExact ==
    /\ \A p \in FilterPositions :
         LET flt == FilterAt(p[1], p[2])
             kc == FilterKey(p[1], p[2], "condition_type") IN
         /\ FilterKey(p[1], p[2], "field") \in DOMAIN sq_out
         /\ sq_out[FilterKey(p[1], p[2], "field")] = flt.field
         /\ FilterKey(p[1], p[2], "value") \in DOMAIN sq_out
         /\ sq_out[FilterKey(p[1], p[2], "value")] = flt.value
         /\ kc \in DOMAIN sq_out <=> flt.condition_type.given
         /\ flt.condition_type.given => sq_out[kc] = flt.condition_type.value
    /\ \A i \in 0..(Len(sq_call.sort_orders.value) - 1) :
         /\ SortOrderKey(i, "field") \in DOMAIN sq_out
         /\ sq_out[SortOrderKey(i, "field")] = sq_call.sort_orders.value[i + 1].field
         /\ SortOrderKey(i, "direction") \in DOMAIN sq_out
         /\ sq_out[SortOrderKey(i, "direction")] = sq_call.sort_orders.value[i + 1].direction
    /\ PageSizeKey \in DOMAIN sq_out <=> sq_call.page_size.given
    /\ CurrentPageKey \in DOMAIN sq_out <=> sq_call.current_page.given
    /\ Cardinality(DOMAIN sq_out) = ExpectedKeyCount

C22_FieldValueIsSearch ==
    sq_call.fn = "make_field_value_query" =>
        LET flt == sq_call.filter_groups[1][1] IN
        /\ sq_out = make_search_query(<<<<flt>>>>, sq_call.sort_orders,
                                      sq_call.page_size, sq_call.current_page)
        /\ sq_out[FilterKey(0, 0, "field")] = flt.field
        /\ sq_out[FilterKey(0, 0, "value")] = flt.value
        /\ sq_call.page_size.given
             => PageSizeKey \in DOMAIN sq_out /\ sq_out[PageSizeKey] = sq_call.page_size.value
        /\ sq_call.current_page.given
             => /\ CurrentPageKey \in DOMAIN sq_out
                /\ sq_out[CurrentPageKey] = sq_call.current_page.value
        /\ \A i \in 0..(Len(sq_call.sort_orders.value) - 1) :
             /\ sq_out[SortOrderKey(i, "field")] = sq_call.sort_orders.value[i + 1].field
             /\ sq_out[SortOrderKey(i, "direction")]
                    = sq_call.sort_orders.value[i + 1].direction
        /\ Cardinality(DOMAIN sq_out) = ExpectedKeyCount

\* C22 witness: make_field_value_query("name", "B", "in", 2, 2,
\* sort_orders=[("sku", "asc"), ("name", "desc")]): 3 + 2 + 4 keys.
C22_Witness ==
    /\ sq_call.fn = "make_field_value_query"
    /\ sq_call.filter_groups = << <<Filter("name", "B", Condition("in"))>> >>
    /\ sq_call.page_size = Some(2) /\ sq_call.current_page = Some(2)
    /\ Len(sq_call.sort_orders.value) = 2
    /\ sq_out["searchCriteria[filter_groups][0][filters][0][field]"] = "name"
    /\ sq_out["searchCriteria[filter_groups][0][filters][0][condition_type]"] = "in"
    /\ sq_out["searchCriteria[pageSize]"] = 2
    /\ sq_out["searchCriteria[currentPage]"] = 2
    /\ sq_out["searchCriteria[sortOrders][0][field]"] = "sku"
    /\ sq_out["searchCriteria[sortOrders][1][direction]"] = "desc"
    /\ Cardinality(DOMAIN sq_out) = 9

-----------------------------------------------------------------------------
(* Properties of the exception text *)

\* The position of a positional placeholder: k for %k, 0 for a name that is no
\* number.
IndexOf(name) == IF name \in DOMAIN IntOf THEN IntOf[name] ELSE 0

\* C23: when no exception is raised, a message without parameters (None, or an
\* empty list or mapping) comes back unchanged; with a mapping every %name
\* piece becomes parameters[name], with a list every %k piece with k in
\* 1..len becomes the k-th element, and every other piece is left as it is.
\* The text of a MagentoException is built the same way.
C23_Interpolation ==
    LET message == bt_call.message
        parameters == bt_call.parameters
        text == bt_out.text IN
    (bt_call.fn # "none" /\ bt_out.exc = NoError) =>
        /\ Falsy(parameters) => text = message
        /\ (~Falsy(parameters) /\ parameters.kind \in {"dict", "list"}) =>
             /\ Len(text) = Len(message)
             /\ \A i \in 1..Len(message) :
                  IF ~message[i].ph THEN text[i] = message[i]
                  ELSE IF parameters.kind = "dict"
                  THEN /\ message[i].s \in DOMAIN parameters.dict
                       /\ text[i] = Lit(parameters.dict[message[i].s])
                  ELSE IndexOf(message[i].s) \in 1..Len(parameters.list)
                           => text[i] = Lit(parameters.list[IndexOf(message[i].s)])

\* C23 witness: MagentoException("%1Hello %2", ["a", "b"]) has the text
\* "aHello b".
C23_Witness ==
    /\ bt_call.fn = "MagentoException"
    /\ bt_call.message = <<Ph("1"), Lit("Hello "), Ph("2")>>
    /\ bt_call.parameters = ListParams(<<"a", "b">>)
    /\ bt_out = [exc |-> NoError, text |-> <<Lit("a"), Lit("Hello "), Lit("b")>>]

\* The message has a placeholder the parameters do not supply: a name that is
\* no key of the mapping, or that is no index in 1..len of the list.
Unsupplied(message, parameters) ==
    \E i \in 1..Len(message) :
        /\ message[i].ph
        /\ IF parameters.kind = "dict" THEN message[i].s \notin DOMAIN parameters.dict
           ELSE IndexOf(message[i].s) \notin 1..Len(parameters.list)

\* C24: with a non-empty list or mapping as parameters, a message with a
\* placeholder they do not supply makes build_exception_text raise.
C24_AsStated ==
    ( /\ bt_call.fn = "build_exception_text"
      /\ bt_call.parameters.kind \in {"dict", "list"}
      /\ ~Falsy(bt_call.parameters)
      /\ Unsupplied(bt_call.message, bt_call.parameters) )
    => bt_out.exc # NoError

-----------------------------------------------------------------------------
(* get_product_by_query: claim C25 *)

ProductCallEnded == gp_pc \in {"returned", "raised"}

\* C25: get_product_by_query with expect_one=True returns None when the query
\* matches no product, the product when it matches exactly one, and raises
\* MagentoAssertionError (which is not a MagentoException) when it matches
\* more than one, having fetched at most 2 products; with expect_one=False
\* it returns the first match or None and never raises the assertion error.
C25_ProductByQuery ==
    /\ gp_call.expect_one => gp_fetched <= 2
    /\ ~gp_call.expect_one => gp_out.kind # "raise"
    /\ ProductCallEnded =>
         IF gp_call.matches = 0 THEN gp_out = ReturnsProduct(None)
         ELSE IF gp_call.matches = 1 \/ ~gp_call.expect_one
              THEN gp_out = ReturnsProduct(Some(1))
         ELSE /\ gp_out = RaisesError(MagentoAssertionError)
              /\ MagentoException \notin ClassesOf[gp_out.exc]
              /\ gp_fetched = 2

\* Three products match, the client's page size is 1, and expect_one=True:
\* the call raised after two fetches of one product each.
C25_Witness ==
    /\ gp_pc = "raised"
    /\ gp_call.expect_one
    /\ gp_call.matches = MaxMatches
    /\ gp_call.client_page_size = 1
    /\ gp.current_page = 2
    /\ gp_fetched = 2

-----------------------------------------------------------------------------
(* get_paginated: claim C26 *)

\* The keys get_paginated sets itself in every page query
PagingKeys == {PageSizeKey, CurrentPageKey}

\* Every fetch carries these keys of the caller's query, with the caller's
\* values
CarriesCallerKeys(keys) ==
    \A k \in 1..Len(requests) : \A key \in keys :
        /\ key \in DOMAIN requests[k].query
        /\ requests[k].query[key] = pg_args.query.value[key]

\* The k-th fetch asks for page k, and all fetches for the same page size
PagesInOrder ==
    \A k \in 1..Len(requests) :
        /\ CurrentPageOf(requests[k]) = k
        /\ PageSizeOf(requests[k]) = PageSizeOf(requests[1])

\* get_paginated leaves the caller's query mapping as it was
CallerQueryKept == [][pg_pc # "idle" => pg_args'.query = pg_args.query]_vars

\* C26 as stated: the k-th fetch carries currentPage = k, every fetch the same
\* pageSize, and every fetch carries all of the caller's query keys with
\* their original values.
C26_AsStated ==
    /\ PagesInOrder
    /\ CarriesCallerKeys(DOMAIN pg_args.query.value)

\* C26: in one get_paginated walk the k-th fetch carries currentPage = k,
\* every fetch carries the same pageSize, and every fetch carries all of the
\* caller's query keys other than searchCriteria[pageSize] and
\* searchCriteria[currentPage] with their original values (these two are
\* replaced by the walk's own); the caller's mapping is never modified.
C26_PageNumbering ==
    /\ [](PagesInOrder /\ CarriesCallerKeys(DOMAIN pg_args.query.value \ PagingKeys))
    /\ CallerQueryKept

\* The caller's query has a filter key, a pageSize of 9 and a currentPage of
\* 5; three pages were fetched with page size 1, each with the filter key.
C26_Witness ==
    /\ pg_args.query.given
    /\ pg_args.query.value[PageSizeKey] = 9
    /\ pg_args.query.value[CurrentPageKey] = 5
    /\ Len(requests) = 3
    /\ PageSizeOf(requests[3]) = 1
    /\ CurrentPageOf(requests[3]) = 3
    /\ requests[3].query[FilterFieldKey] = 7

-----------------------------------------------------------------------------
(* BatchSaver: claims C28 and C29 *)

\* The writes that raised, among those issued so far
FailedPuts == { i \in 1..Len(put_log) : ~put_log[i].ok }

\* C28: for a single-writer BatchSaver, after any sequence of add_item,
\* send_batch and finalize calls, failed writes included, sent_items plus
\* the length of the buffer equals the number of add_item calls made so far,
\* sent_batches <= sent_items, and neither counter ever decreases.
C28_Conservation ==
    /\ [](/\ saver.sent_items + Len(saver.batch) = n_added
          /\ saver.sent_batches <= saver.sent_items)
    /\ [][ /\ saver'.sent_batches >= saver.sent_batches
           /\ saver'.sent_items >= saver.sent_items ]_vars

\* A write raised, a later one went through, and items are pending again.
C28_Witness ==
    /\ FailedPuts # {}
    /\ saver.sent_batches = 2
    /\ saver.sent_items = 4
    /\ Len(saver.batch) = 1
    /\ n_added = 5

\* C29 as stated: every write a BatchSaver issues carries between 1 and
\* batch_size items, also after an earlier write raised and the caller went
\* on adding items.
C29_AsStated ==
    \A i \in 1..Len(put_log) :
        /\ 1 <= Len(put_log[i].items)
        /\ Len(put_log[i].items) <= saver.batch_size

-----------------------------------------------------------------------------
(* BatchSaver under two threads: claim C27 *)

\* No thread is inside add_item
Quiescent == \A t \in Threads : th[t].pc = "idle"

\* The items whose append has run
AppendedItems == (1..th_added) \ { th[t].item_data : t \in { u \in Threads : th[u].pc = "append" } }

Elements(seq) == { seq[i] : i \in 1..Len(seq) }

\* The items that were added and are neither in a written batch nor in the buffer
LostItems ==
    { i \in AppendedItems :
        /\ i \notin Elements(th_saver.batch)
        /\ \A w \in 1..Len(th_written) : i \notin Elements(th_written[w]) }

RECURSIVE WrittenCount(_)
\* The number of items the first n writes carried
WrittenCount(n) == IF n = 0 THEN 0 ELSE WrittenCount(n - 1) + Len(th_written[n])

\* C27: with a single sequential writer no added item is ever lost (each is
\* in a written batch or in the buffer) and, between calls, sent_items is the
\* number of items actually written; with two threads calling add_item on
\* the same instance without a lock a state is reachable in which an item
\* is lost and sent_items differs from the number of items written
\* (C27_Witness).
C27_SingleWriterSafe ==
    th_writers = {1} =>
        /\ LostItems = {}
        /\ Quiescent => th_saver.sent_items = WrittenCount(Len(th_written))

\* Two threads, both back from add_item: an item is in no write and not in
\* the buffer, and sent_items is not the number of items written.
C27_Witness ==
    /\ th_writers = Threads
    /\ Quiescent
    /\ LostItems # {}
    /\ th_saver.sent_items # WrittenCount(Len(th_written))

-----------------------------------------------------------------------------
(* BatchGetter: claim C30 *)

\* The number of getter calls so far whose batch holds the key
TimesSent(key) ==
    Cardinality({ i \in 1..Len(bg_calls) :
                    \E j \in 1..Len(bg_calls[i].batch) : bg_calls[i].batch[j] = ToString(key) })

\* C30 as stated: every getter call carries between 1 and batch_size keys,
\* and no key of a one-shot keys iterator is sent in more than one call,
\* also after an iteration that was abandoned or in which the getter raised.
C30_AsStated ==
    /\ \A i \in 1..Len(bg_calls) :
         /\ 1 <= Len(bg_calls[i].batch)
         /\ Len(bg_calls[i].batch) <= bg.batch_size
    /\ bg.keys.kind = "iterator" =>
         \A k \in 1..Len(bg.keys.items) : TimesSent(bg.keys.items[k]) <= 1

====
